---- MODULE Spec2Model ----
(***************************************************************************)
(* Verification model of the Scriggo sources: the register VM run loop     *)
(* (package vm), the template Render/Run entry points and their global     *)
(* variables, and the tree renderer (URL attribute state and error sink).  *)
(* Every subsystem has its own specification over the shared variables;    *)
(* the variables of the other subsystems stay unchanged in it.             *)
(***************************************************************************)
EXTENDS Integers, Sequences, FiniteSets, TLC

VARIABLES
    \* ---- package vm: the fields of VM and the locals of VM.run
    fn,          \* vm.fn, the function being executed
    cvars,       \* vm.cvars, the closure variables of fn
    fp,          \* vm.fp, the four frame pointers <<int, float, string, general>>
    st,          \* vm.st, the sizes of the four register banks
    pc,          \* the local pc of run
    calls,       \* vm.calls, the call stack
    ok,          \* vm.ok
    status,      \* "running", "done" (run returned) or "panic" (the Go runtime panicked)
    cancelled,   \* the context given with SetContext has been cancelled
    \* ---- history of the VM run, for stating the properties
    lastOp,      \* the instruction executed by the last step
    shadow,      \* the VM state saved at each call that has not returned yet
    expect,      \* <<the VM state the last return had to restore>>, else <<>>
    depth0,      \* Len(calls) before the last instruction
    safepoints,  \* safepoints executed since the context was cancelled
    \* ---- package vm: the register banks (vm.regs) of the running function
    regI,        \* vm.regs.Int
    regF,        \* vm.regs.Float
    regS,        \* vm.regs.String
    regG,        \* vm.regs.General
    \* ---- history of the last map lookup and type assertion
    present,     \* the key of the last map lookup was in the map
    matched,     \* the operand of the last assertion had the asserted type
    dest,        \* <<bank, register, asserted type>> of the last assertion, else <<>>
    \* ---- packages template and templates: two runs of one built template
    api,         \* "Render" (package template) or "Run" (package templates), "none" before the build
    tglobals,    \* t.globals: the package and the Value of every global
    mem,         \* the value every cell holds
    runPc,       \* the position of every run
    values,      \* the vector of global values of the VM of every run
    \* ---- history of the runs
    writer,      \* the run that last wrote every cell, 0 before any run did
    perRun,      \* per run, the globals without a Value that vars gives by value or omits
    lastRead,    \* <<the last read of a global by a run>>, else <<>>
    written,     \* the locations every run has written
    accessed,    \* the locations every run has read or written
    \* ---- package template: the tree renderer (rendering.render)
    rhandler,    \* the handler given to RenderTree: "collect" (render) or "always" (the test)
    rstatus,     \* "rendering", "returned" or "panic" (the Go runtime panicked)
    rframes,     \* the nested calls of render: the node lists being rendered
    rscopes,     \* len(r.vars)
    urlstate,    \* <<the urlState of the URL node being rendered>>, else <<>> (nil)
    errs,        \* errs of render in the package of Dir: the errors the handler took
    rresult,     \* what render returned
    \* ---- history of the rendering
    rnodes,      \* nodes rendered so far
    occurred,    \* every rendering error so far, in order
    lastScan,    \* history: <<the result of evalBinary>> when the expression of a
                 \* case of the Switch just rendered failed and the handler took it
    lastNode,    \* the kind of the node rendered last
    prevUrl,     \* urlstate before the last step
    lastText,    \* the text, after the cut, of the Text node just rendered in a URL
    lastWrite,   \* what that Text node wrote
    \* ---- the type checker
    tcmod,       \* the modality: "program", "script" or "template", "none" before newTypechecker
    allowUnused, \* the scopes allow unused declarations
    tcstatus,    \* "idle", "checking", "returned" or "panic"
    tcscopes,    \* tc.scopes: for every scope, the declaration of every name
    tcblock,     \* tc.filePackageBlock
    tcuniverse,  \* tc.universe
    unusedVars,  \* tc.unusedVars
    tcdecls,     \* number of the declarations made in the scopes
    tcerr,       \* <<the error returned or the value of the panic>>
    lastLookup,  \* history: <<the result of the lookup just made>>
    lastRemoved, \* history: <<whether the scope just removed held an unused variable>>
    popped,      \* history: the declarations of the scopes removed
    usedDecls,   \* history: the declarations of the open scopes a use has resolved to
    \* ---- typecheck of a template file
    xtree,       \* tree.Nodes: the kind of every node
    xphase,      \* the position in typecheck
    xi,          \* index of the loop that declares the macros
    xextends,    \* the index in tree.Nodes of the node getExtends has returned, else 0
    xscope,      \* the macros declared in tc.scopes, by index in tree.Nodes
    xext,        \* number of the nodes of the extended file that are checked
    xbodies,     \* the macros whose body is checked
    \* ---- package ast: IsPath
    ppath,       \* the path given to IsPath, as a sequence of characters
    pvalid,      \* <<the result of IsPath>>, <<>> before the call
    \* ---- package parser: toAbsolutePath
    adir,        \* the directory
    arel,        \* the relative path
    aresult,     \* <<the result of toAbsolutePath>>, <<>> before the call
    \* ---- the type checker: binaryOp on two constants
    cop,         \* expr.Op
    c1,          \* the constant of expr.Expr1
    c2,          \* the constant of expr.Expr2
    cfold,       \* <<the constant binaryOp returns>>, <<>> before the call
    \* ---- package vm: the activations of run that a range instruction suspends
    loops,       \* the range loops under way, outermost first
    lastCode,    \* <<the code the last run returned to a range loop>>, else <<>>
    ended,       \* the range loops the last instruction ended
    \* ---- the type checker: checkNodes on the statements of a function body
    anc,         \* tc.ancestors with, for each node, the state of the case of checkNodes that checks it
    tterm,       \* tc.terminating
    tdepth,      \* the scopes entered and not exited
    lastKind,    \* the last node checked in the node list under way, "none" at its start
    sstatus,     \* "checking", "error" (a checking error has been raised) or "done"
    done,        \* <<the statement whose check has just ended>>, else <<>>
    \* ---- the lexer
    ltop,        \* context the lexer was created with
    lctx,        \* current context of the lexer
    lsub,        \* section the lexer is inside: none, cdata or comment
    lsrc,        \* items of the source scanned so far
    ltoks        \* code tokens emitted: index of the item and context

vmVars == <<fn, cvars, fp, st, pc, calls, ok, status, cancelled,
            lastOp, shadow, expect, depth0, safepoints>>

regVars == <<regI, regF, regS, regG, present, matched, dest>>

tplVars == <<api, tglobals, mem, runPc, values, writer, perRun, lastRead,
             written, accessed>>

rndVars == <<lastScan, rhandler, rstatus, rframes, rscopes, urlstate, errs, rresult, rnodes,
             occurred, lastNode, prevUrl, lastText, lastWrite>>

chkVars == <<tcmod, allowUnused, tcstatus, tcscopes, tcblock, tcuniverse, unusedVars,
             tcdecls, tcerr, lastLookup, lastRemoved, popped, usedDecls>>

coreVars == <<vmVars, regVars, tplVars, rndVars>>

extVars == <<xtree, xphase, xi, xextends, xscope, xext, xbodies>>

pathVars == <<ppath, pvalid, adir, arel, aresult>>

constVars == <<cop, c1, c2, cfold>>

rngVars == <<loops, lastCode, ended>>

stmVars == <<anc, tterm, tdepth, lastKind, sstatus, done>>

lexVars == <<ltop, lctx, lsub, lsrc, ltoks>>

auxVars == <<chkVars, extVars, pathVars, constVars, rngVars, stmVars, lexVars>>

\* what the type checker leaves alone
exceptChk == <<coreVars, extVars, pathVars, constVars, rngVars, stmVars, lexVars>>

\* what typecheck leaves alone
exceptExt == <<coreVars, chkVars, pathVars, constVars, rngVars, stmVars, lexVars>>

\* what the functions on paths leave alone
exceptPath == <<coreVars, chkVars, extVars, constVars, rngVars, stmVars, lexVars>>

\* what binaryOp leaves alone
exceptConst == <<coreVars, chkVars, extVars, pathVars, rngVars, stmVars, lexVars>>

\* what the range instructions leave alone besides the VM state
exceptRng == <<regVars, tplVars, rndVars, chkVars, extVars, pathVars, constVars, stmVars, lexVars>>

\* what the check of the statements leaves alone
exceptStm == <<coreVars, chkVars, extVars, pathVars, constVars, rngVars, lexVars>>

\* what the lexer leaves alone
exceptLex == <<coreVars, chkVars, extVars, pathVars, constVars, rngVars, stmVars>>

vars == <<coreVars, auxVars>>

Nil == "nil"

Min(a, b) == IF a < b THEN a ELSE b

(***************************************************************************)
(* Bounds of the exploration.                                              *)
(***************************************************************************)
MaxCalls == 2        \* records on vm.calls
BodyLen == 3         \* instructions in a function body
MaxVal == 1          \* values a template assigns to a global: 1..MaxVal
MaxText == 2         \* bytes in the text of a Text node
MaxNodes == 3        \* nodes rendered in a rendering
MaxDepth == 2        \* nested calls of render below that for the tree
MaxScopes == 2       \* scopes open in the type checker
MaxTree == 3         \* nodes of the tree of a template file
MaxExt == 2          \* nodes of the extended file
MaxPath == 4         \* characters of a path
MaxStr == 2          \* characters of a constant string
MaxDecls == 2        \* declarations made in the scopes of the type checker
MaxLoops == 2        \* range loops nested in each other
MaxElems == 2        \* elements of the value a range instruction goes over
MaxAncestors == 3    \* statements and cases nested in each other
MaxEntered == 6      \* scopes entered by the statements under check
MaxSrc == 4          \* items of the source the lexer scans

(***************************************************************************)
(* package vm: VM.run, the instructions that change the control state.  *)
(* The body of a function is any program: each fetch draws the instruction *)
(* and its operands.                                                       *)
(***************************************************************************)
\* The functions of the program, with the registers each one uses per bank.
Funcs == {0, 1}
Regnum(f) == <<f + 1, 1, f, 2>>

\* The non-nil closure variables a closure can carry.
ClosureVars == {"cv"}

\* The register-shift words that can follow a call: body[pc] read as
\* off.op, off.a, off.b, off.c.
Shifts == {[op |-> 1, a |-> 1, b |-> 0, c |-> 2],
           [op |-> 0, a |-> 2, b |-> 1, c |-> 1]}

\* The callees of call and tail-call: a closure held by a general register
\* (a == NoPackage) or a function of a package.
Callees == [kind : {"closure"}, fn : Funcs, vars : ClosureVars]
           \cup [kind : {"package"}, fn : Funcs, vars : {Nil}]

InitStack == 4

\* moreIntStack and its siblings: the bank doubles.
MoreStack(size) == size * 2

Grow(size, need) == IF need > size THEN MoreStack(size) ELSE size

\* the frame pointers after the shift of opCall (uint32 sums; within the
\* bounds they stay far below 2^32)
ShiftFp(f, off) ==
    << f[1] + off.op, f[2], f[3] + off.b, f[4] + off.c >>

\* the bank sizes after the checks of opCall and opTailCall for callee g
GrowBanks(f, g) ==
    [i \in 1..4 |-> Grow(st[i], f[i] + Regnum(g)[i])]

\* the record opCall pushes; p is pc after the fetch of the call
CallRecord(p) ==
    [fn |-> fn, cvars |-> cvars, fp |-> fp, pc |-> p + 1, tail |-> FALSE]

TailRecordAsCall(p) ==
    [fn |-> fn, cvars |-> cvars, fp |-> <<0, 0, 0, 0>>, pc |-> p, tail |-> FALSE]

\* the record opTailCall pushes; p is pc after the fetch of the tail call
TailRecord(p) ==
    [fn |-> fn, cvars |-> cvars, fp |-> <<0, 0, 0, 0>>, pc |-> p, tail |-> TRUE]

ReturnIndexTop(cs) == Len(cs)

\* the index opReturn stops at: the topmost record that is not a tail record;
\* 0 when there is none (the loop then indexes vm.calls[-1])
ReturnIndex(cs) ==
    LET nt == {i \in 1..Len(cs) : ~cs[i].tail}
    IN IF nt = {} THEN 0 ELSE CHOOSE i \in nt : \A j \in nt : j <= i

Running == status = "running" /\ pc < BodyLen

\* the safepoints run since the cancellation, counted up to 2
Counted(isSafepoint) ==
    IF cancelled /\ isSafepoint THEN Min(safepoints + 1, 2) ELSE safepoints

\* in := vm.fn.body[pc] with pc past the end of the body
FetchFault ==
    /\ UNCHANGED <<regVars, tplVars, rndVars, auxVars>>
    /\ status = "running" /\ pc >= BodyLen
    /\ status' = "panic"
    /\ lastOp' = "fetch"
    /\ depth0' = Len(calls)
    /\ expect' = <<>>
    /\ UNCHANGED <<fn, cvars, fp, st, pc, calls, ok, cancelled, shadow, safepoints>>

Call(callee, off) ==
    /\ UNCHANGED <<regVars, tplVars, rndVars, auxVars>>
    /\ Running
    /\ Len(calls) < MaxCalls
    /\ lastOp' = "call"
    /\ depth0' = Len(calls)
    /\ IF pc + 1 >= BodyLen
       THEN \* off := vm.fn.body[pc] is out of range
            /\ status' = "panic"
            /\ pc' = pc + 1
            /\ UNCHANGED <<fn, cvars, fp, st, calls, shadow, safepoints>>
       ELSE /\ cvars' = callee.vars
            /\ fp' = ShiftFp(fp, off)
            /\ st' = GrowBanks(ShiftFp(fp, off), callee.fn)
            /\ fn' = callee.fn
            /\ calls' = Append(calls, CallRecord(pc + 1))
            /\ pc' = 0
            /\ shadow' = Append(shadow, [fn |-> fn, cvars |-> cvars, fp |-> fp,
                                         pc |-> pc + 2, depth |-> Len(calls)])
            /\ safepoints' = Counted(TRUE)
            /\ UNCHANGED status
    /\ expect' = <<>>
    /\ UNCHANGED <<ok, cancelled>>

Return ==
    /\ UNCHANGED <<regVars, tplVars, rndVars, auxVars>>
    /\ Running
    /\ lastOp' = "return"
    /\ depth0' = Len(calls)
    /\ IF Len(calls) = 0
       THEN /\ status' = "done"
            /\ pc' = pc + 1
            /\ expect' = <<>>
            /\ UNCHANGED <<fn, cvars, fp, calls, shadow>>
       ELSE LET i == ReturnIndex(calls) IN
            IF i = 0
            THEN /\ status' = "panic"
                 /\ pc' = pc + 1
                 /\ expect' = <<>>
                 /\ UNCHANGED <<fn, cvars, fp, calls, shadow>>
            ELSE /\ calls' = SubSeq(calls, 1, i - 1)
                 /\ fp' = calls[i].fp
                 /\ pc' = calls[i].pc
                 /\ fn' = calls[i].fn
                 /\ cvars' = calls[i].cvars
                 /\ expect' = IF Len(shadow) = 0 THEN <<>> ELSE <<shadow[Len(shadow)]>>
                 /\ shadow' = IF Len(shadow) = 0 THEN <<>>
                              ELSE SubSeq(shadow, 1, Len(shadow) - 1)
                 /\ UNCHANGED status
    /\ UNCHANGED <<st, ok, cancelled, safepoints>>

\* b == CurrentFunction: the function calls itself
TailCallCurrent ==
    /\ UNCHANGED <<regVars, tplVars, rndVars, auxVars>>
    /\ Running
    /\ Len(calls) < MaxCalls
    /\ lastOp' = "tailcall"
    /\ depth0' = Len(calls)
    /\ calls' = Append(calls, TailRecord(pc + 1))
    /\ pc' = 0
    /\ safepoints' = Counted(TRUE)
    /\ expect' = <<>>
    /\ UNCHANGED <<fn, cvars, fp, st, ok, status, cancelled, shadow>>

TailCall(callee) ==
    /\ UNCHANGED <<regVars, tplVars, rndVars, auxVars>>
    /\ Running
    /\ Len(calls) < MaxCalls
    /\ lastOp' = "tailcall"
    /\ depth0' = Len(calls)
    /\ calls' = Append(calls, TailRecord(pc + 1))
    /\ pc' = 0
    /\ cvars' = callee.vars
    /\ st' = GrowBanks(fp, callee.fn)
    /\ fn' = callee.fn
    /\ safepoints' = Counted(TRUE)
    /\ expect' = <<>>
    /\ UNCHANGED <<fp, ok, status, cancelled, shadow>>

Goto(addr) ==
    /\ UNCHANGED <<regVars, tplVars, rndVars, auxVars>>
    /\ Running
    /\ lastOp' = "goto"
    /\ depth0' = Len(calls)
    /\ pc' = addr
    /\ safepoints' = Counted(addr <= pc)
    /\ expect' = <<>>
    /\ UNCHANGED <<fn, cvars, fp, st, calls, ok, status, cancelled, shadow>>

\* an instruction that reads and writes registers only
RegisterInstr ==
    /\ UNCHANGED <<regVars, tplVars, rndVars, auxVars>>
    /\ Running
    /\ lastOp' = "register"
    /\ depth0' = Len(calls)
    /\ pc' = pc + 1
    /\ expect' = <<>>
    /\ UNCHANGED <<fn, cvars, fp, st, calls, ok, status, cancelled, shadow, safepoints>>

\* the host cancels the context of the run
Cancel ==
    /\ UNCHANGED <<regVars, tplVars, rndVars, auxVars>>
    /\ status = "running"
    /\ ~cancelled
    /\ cancelled' = TRUE
    /\ UNCHANGED <<fn, cvars, fp, st, pc, calls, ok, status,
                   lastOp, shadow, expect, depth0, safepoints>>

(***************************************************************************)
(* package vm: VM.run, the instructions on registers that read or write    *)
(* vm.ok. A general value is a record: its dynamic type t and its payload, *)
(* i for numbers and booleans, s for strings, m for maps (the elements of  *)
(* a map are kept as numbers and read through ElemInt, ElemString, ...).   *)
(***************************************************************************)
IntRegs == {1}
FloatRegs == {1}
StringRegs == {1}
GeneralRegs == {1, 2}

EmptyMap == [k \in {} |-> 0]

Val(t, i, str, m) == [t |-> t, i |-> i, s |-> str, m |-> m]

\* the nil interface
NilVal == Val("nil", 0, "", EmptyMap)

OneKey == [k \in {"a"} |-> 1]

\* the values the host hands to the program
HostValues ==
    { NilVal,
      Val("int", 1, "", EmptyMap),
      Val("float64", 1, "", EmptyMap),
      Val("string", 0, "a", EmptyMap),
      Val("bool", 1, "", EmptyMap),
      Val("map[string]int", 0, "", OneKey),
      Val("map[string]int", 0, "", EmptyMap),
      Val("map[string]bool", 0, "", OneKey),
      Val("map[string]string", 0, "", OneKey),
      Val("map[string]interface{}", 0, "", OneKey) }

\* vm.fn.types: the types an assert instruction can name
Types == {"int", "float64", "string", "bool", "map[string]int"}

MapTypes == {"map[string]int", "map[string]bool", "map[string]string",
             "map[string]interface{}"}

\* the string keys of the constant pool
Keys == {"a", "b"}

\* elements of the maps, from their stored number
ElemString(n) == IF n = 1 THEN "a" ELSE ""
ElemInterface(n) == IF n = 1 THEN Val("int", 1, "", EmptyMap) ELSE NilVal

\* t.Kind() as the switch of opAssert groups it
AssertBank(t) ==
    CASE t = "int" -> "int"
      [] t = "float64" -> "float"
      [] t = "string" -> "string"
      [] OTHER -> "general"

\* one instruction on registers: the fetch, pc++ and the writes it makes
Exec(op, i2, f2, s2, g2, ok2, pc2, pres, mat, d) ==
    /\ Running
    /\ lastOp' = op
    /\ regI' = i2 /\ regF' = f2 /\ regS' = s2 /\ regG' = g2
    /\ ok' = ok2
    /\ pc' = pc2
    /\ present' = pres /\ matched' = mat /\ dest' = d
    /\ UNCHANGED <<tplVars, rndVars, auxVars>>
    /\ UNCHANGED <<fn, cvars, fp, st, calls, status, cancelled,
                   shadow, expect, depth0, safepoints>>

\* the instruction makes the Go runtime panic: nothing is written
Panics(op, pres, mat, d) ==
    /\ Running
    /\ lastOp' = op
    /\ status' = "panic"
    /\ pc' = pc + 1
    /\ present' = pres /\ matched' = mat /\ dest' = d
    /\ UNCHANGED <<tplVars, rndVars, auxVars>>
    /\ UNCHANGED <<regI, regF, regS, regG, ok>>
    /\ UNCHANGED <<fn, cvars, fp, st, calls, cancelled,
                   shadow, expect, depth0, safepoints>>

SetI(c, n) == [regI EXCEPT ![c] = n]
SetF(c, n) == [regF EXCEPT ![c] = n]
SetS(c, x) == [regS EXCEPT ![c] = x]
SetG(c, v) == [regG EXCEPT ![c] = v]
\* setBool keeps a boolean in the integer bank
SetBool(c, b) == [regI EXCEPT ![c] = IF b THEN 1 ELSE 0]

\* opGetVar, the default branch: a host variable is read into a general register
GetVar(c, v) ==
    Exec("getvar", regI, regF, regS, SetG(c, v), ok, pc + 1, FALSE, FALSE, <<>>)

\* -opMoveString: a string constant
MoveString(c, k) ==
    Exec("movestring", regI, regF, SetS(c, k), regG, ok, pc + 1, FALSE, FALSE, <<>>)

\* reflect.ValueOf(vm.general(a)).Type() panics for the nil interface
AssertPanics(v) == v = NilVal

\* opAssert
OpAssert(a, t, c) ==
    LET v == regG[a]
        hit == v.t = t
        bank == AssertBank(t)
        d == <<bank, c, t>>
    IN IF AssertPanics(v)
       THEN Panics("assert", FALSE, FALSE, d)
       ELSE CASE bank = "int" ->
                   /\ c \in IntRegs
                   /\ Exec("assert", SetI(c, IF hit THEN v.i ELSE 0), regF, regS, regG,
                           hit, pc + 1, FALSE, hit, d)
              [] bank = "float" ->
                   /\ c \in FloatRegs
                   /\ Exec("assert", regI, SetF(c, IF hit THEN v.i ELSE 0), regS, regG,
                           hit, pc + 1, FALSE, hit, d)
              [] bank = "string" ->
                   /\ c \in StringRegs
                   /\ Exec("assert", regI, regF, SetS(c, IF hit THEN v.s ELSE ""), regG,
                           hit, pc + 1, FALSE, hit, d)
              [] OTHER ->
                   /\ c \in GeneralRegs
                   /\ Exec("assert", regI, regF, regS, SetG(c, IF hit THEN v ELSE NilVal),
                           hit, pc + 1, FALSE, hit, d)

\* opAssertInt: i, ok := vm.general(a).(int)
OpAssertInt(a, c) ==
    LET v == regG[a]
        hit == v.t = "int"
    IN Exec("assertInt", SetI(c, IF hit THEN v.i ELSE 0), regF, regS, regG,
            hit, pc + 1, FALSE, hit, <<"int", c, "int">>)

\* opAssertFloat64
OpAssertFloat64(a, c) ==
    LET v == regG[a]
        hit == v.t = "float64"
    IN Exec("assertFloat64", regI, SetF(c, IF hit THEN v.i ELSE 0), regS, regG,
            hit, pc + 1, FALSE, hit, <<"float", c, "float64">>)

\* opAssertString
OpAssertString(a, c) ==
    LET v == regG[a]
        hit == v.t = "string"
    IN Exec("assertString", regI, regF, SetS(c, IF hit THEN v.s ELSE ""), regG,
            hit, pc + 1, FALSE, hit, <<"string", c, "string">>)

\* vm.ok after a map lookup that found, or did not find, the key
OkAfterLookup(found) == ok

\* opMapIndex: the lookup through reflect; m.MapIndex(key) is the zero Value
\* for a missing key, on which Int, Bool and Interface panic and String gives
\* "<invalid Value>"
MapIndex(a, key, c) ==
    LET m == regG[a]
        found == key \in DOMAIN m.m
    IN IF m.t \notin MapTypes
       THEN Panics("mapindex", FALSE, FALSE, <<>>)
       ELSE CASE m.t = "map[string]int" ->
                   IF found
                   THEN /\ c \in IntRegs
                        /\ Exec("mapindex", SetI(c, m.m[key]), regF, regS, regG,
                                OkAfterLookup(found), pc + 1, found, FALSE, <<>>)
                   ELSE Panics("mapindex", found, FALSE, <<>>)
              [] m.t = "map[string]string" ->
                   /\ c \in StringRegs
                   /\ Exec("mapindex", regI, regF,
                           SetS(c, IF found THEN ElemString(m.m[key]) ELSE "<invalid Value>"),
                           regG, OkAfterLookup(found), pc + 1, found, FALSE, <<>>)
              [] m.t = "map[string]bool" ->
                   IF found
                   THEN /\ c \in IntRegs
                        /\ Exec("mapindex", SetBool(c, m.m[key] = 1), regF, regS, regG,
                                OkAfterLookup(found), pc + 1, found, FALSE, <<>>)
                   ELSE Panics("mapindex", found, FALSE, <<>>)
              [] OTHER ->
                   IF found
                   THEN /\ c \in GeneralRegs
                        /\ Exec("mapindex", regI, regF, regS, SetG(c, ElemInterface(m.m[key])),
                                OkAfterLookup(found), pc + 1, found, FALSE, <<>>)
                   ELSE Panics("mapindex", found, FALSE, <<>>)

\* opMapIndexStringInt: vm.general(a).(map[string]int)[key]
MapIndexStringInt(a, key, c) ==
    LET m == regG[a]
        found == key \in DOMAIN m.m
    IN IF m.t /= "map[string]int"
       THEN Panics("mapindexStringInt", FALSE, FALSE, <<>>)
       ELSE Exec("mapindexStringInt", SetI(c, IF found THEN m.m[key] ELSE 0), regF, regS, regG,
                 OkAfterLookup(found), pc + 1, found, FALSE, <<>>)

\* opMapIndexStringBool
MapIndexStringBool(a, key, c) ==
    LET m == regG[a]
        found == key \in DOMAIN m.m
    IN IF m.t /= "map[string]bool"
       THEN Panics("mapindexStringBool", FALSE, FALSE, <<>>)
       ELSE Exec("mapindexStringBool", SetBool(c, found /\ m.m[key] = 1), regF, regS, regG,
                 OkAfterLookup(found), pc + 1, found, FALSE, <<>>)

\* opMapIndexStringString
MapIndexStringString(a, key, c) ==
    LET m == regG[a]
        found == key \in DOMAIN m.m
    IN IF m.t /= "map[string]string"
       THEN Panics("mapindexStringString", FALSE, FALSE, <<>>)
       ELSE Exec("mapindexStringString", regI, regF,
                 SetS(c, IF found THEN ElemString(m.m[key]) ELSE ""), regG,
                 OkAfterLookup(found), pc + 1, found, FALSE, <<>>)

\* opMapIndexStringInterface
MapIndexStringInterface(a, key, c) ==
    LET m == regG[a]
        found == key \in DOMAIN m.m
    IN IF m.t /= "map[string]interface{}"
       THEN Panics("mapindexStringInterface", FALSE, FALSE, <<>>)
       ELSE Exec("mapindexStringInterface", regI, regF, regS,
                 SetG(c, IF found THEN ElemInterface(m.m[key]) ELSE NilVal),
                 OkAfterLookup(found), pc + 1, found, FALSE, <<>>)

\* opJmpOk
JmpOk(addr) ==
    Exec("jmpok", regI, regF, regS, regG, ok, IF ok THEN addr ELSE pc + 1,
         present, FALSE, <<>>)

\* opJmpNotOk
JmpNotOk(addr) ==
    Exec("jmpnotok", regI, regF, regS, regG, ok, IF ~ok THEN addr ELSE pc + 1,
         present, FALSE, <<>>)

\* Condition(b) of opIf and of opIfInt
NilConditions == {"ConditionNil", "ConditionNotNil"}
IntConditions == {"ConditionEqual", "ConditionNotEqual", "ConditionLess",
                  "ConditionLessOrEqual", "ConditionGreater",
                  "ConditionGreaterOrEqual"}

\* the comparison a condition stands for
NilCondition(b, v) ==
    IF b = "ConditionNil" THEN v = NilVal ELSE v # NilVal

IntCondition(b, v1, v2) ==
    CASE b = "ConditionEqual" -> v1 = v2
      [] b = "ConditionNotEqual" -> v1 # v2
      [] b = "ConditionLess" -> v1 < v2
      [] b = "ConditionLessOrEqual" -> v1 <= v2
      [] b = "ConditionGreater" -> v1 > v2
      [] OTHER -> v1 >= v2

\* opIf: the case ConditionNil sets cond and leaves the switch; the test of
\* cond with its pc++ stands inside the case ConditionNotNil
OpIf(a, b) ==
    LET v1 == regG[a]
        skip == b = "ConditionNotNil" /\ v1 # NilVal
    IN Exec("if", regI, regF, regS, regG, ok, IF skip THEN pc + 2 ELSE pc + 1,
            present, matched, <<>>)

\* vm.intk(c, op < 0): the constant c itself or the integer register c
Intk(c, k) == IF k THEN c ELSE regI[c]

\* opIfInt and -opIfInt
OpIfInt(a, b, c, k) ==
    LET v1 == regI[a]
        v2 == Intk(c, k)
    IN Exec("ifint", regI, regF, regS, regG, ok,
            IF IntCondition(b, v1, v2) THEN pc + 2 ELSE pc + 1,
            present, matched, <<>>)

\* int16(x) and int32(x) of an int64: the low bits, read as a signed number
Int16(x) == ((x + 32768) % 65536) - 32768

Int32(x) ==
    IF x > 2147483647 THEN x - 2147483647 - 2147483647 - 2
    ELSE IF x < -2147483647 - 1 THEN x + 2147483647 + 2147483647 + 2
    ELSE x

\* opAddInt16 and -opAddInt16
OpAddInt16(a, b, c, k) ==
    Exec("addint16", SetI(c, Int16(regI[a] + Intk(b, k))), regF, regS, regG,
         ok, pc + 1, present, matched, <<>>)

\* opSubInt16 and -opSubInt16
OpSubInt16(a, b, c, k) ==
    Exec("subint16", SetI(c, Int32(regI[a] - Intk(b, k))), regF, regS, regG,
         ok, pc + 1, present, matched, <<>>)

\* opSubInvInt16 and -opSubInvInt16
OpSubInvInt16(a, b, c, k) ==
    Exec("subinvint16", SetI(c, Int32(Intk(b, k) - regI[a])), regF, regS, regG,
         ok, pc + 1, present, matched, <<>>)

\* opMulInt16 and -opMulInt16
OpMulInt16(a, b, c, k) ==
    Exec("mulint16", SetI(c, Int16(regI[a] * Intk(b, k))), regF, regS, regG,
         ok, pc + 1, present, matched, <<>>)

\* the key operand: a constant (the k flag) or a string register
KeyOperands == Keys \cup {regS[b] : b \in StringRegs}

(***************************************************************************)
(* Packages template and templates: two concurrent runs of one built       *)
(* template.  Template.Render of package template stores its writer in the *)
(* globals of the template and builds the VM with newVM; Template.Run of   *)
(* package templates builds the values with initGlobalVariables.  A        *)
(* location is a record: a Value field of t.globals, a host variable, or a *)
(* cell made by reflect.New.                                               *)
(***************************************************************************)
Runs == {1, 2}

Cell(kind, run, idx) == [kind |-> kind, run |-> run, idx |-> idx]

NoCell == Cell("nil", 0, 0)             \* a nil Value
PanicCell == Cell("panic", 0, 0)        \* the initialisation panics
Field(i) == Cell("t.globals", 0, i)     \* the location of t.globals[i].Value
Preset(i) == Cell("preset", 0, i)       \* the host variable t.globals[i].Value points to
Host(i) == Cell("host", 0, i)           \* the host variable a pointer in vars points to
Local(p, k) == Cell("local", p, k)      \* out, write and render of the Render call p

\* one cell for the global i, whatever the run
NewCellShared(p, i) == Cell("new", 1, i)

\* the cell reflect.New makes for the global i: a new one at every call
NewCell(p, i) == Cell("new", p, i)

\* Render writes the globals 0, 1 and 2 of the template (here 1, 2 and 3)
Builtins(a) == IF a = "Render" THEN 3 ELSE 0

\* a template has one more global
NumGlobals(a) == Builtins(a) + 1

\* the templates that can be built: a global is of package main or of an
\* imported package, and has a Value set at build time or none
Templates(a) ==
    {t \in [1..NumGlobals(a) -> [pkg : {"main", "imported"}, value : {"nil", "set"}]] :
        /\ \A i \in 1..Builtins(a) : t[i] = [pkg |-> "imported", value |-> "nil"]
        /\ (a = "Render" => \A i \in 4..NumGlobals(a) : t[i] = [pkg |-> "main", value |-> "nil"])}

Global(t, i) ==
    [pkg |-> t[i].pkg, value |-> IF t[i].value = "set" THEN Preset(i) ELSE NoCell]

\* what vars holds for the name of a global of package main
Initializers == {"absent", "value", "pointer", "reflect.Value", "nil"}

Cells ==
    {Preset(i) : i \in 1..4} \cup {Host(i) : i \in 1..4}
    \cup {Cell("new", p, i) : p \in Runs, i \in 1..4}
    \cup {Local(p, k) : p \in Runs, k \in 1..3}

\* initGlobalVariables of package templates, one iteration of its loop: the
\* value of the global i for the run p
InitGlobalVariable(p, i, variable, init) ==
    IF variable.pkg = "main" /\ init # "absent"
    THEN IF variable.value # NoCell THEN PanicCell
         ELSE IF init = "nil" THEN PanicCell
         ELSE IF init = "value" THEN NewCell(p, i)
         ELSE IF init = "pointer" THEN Host(i)
         ELSE PanicCell
    ELSE IF variable.value = NoCell THEN NewCell(p, i) ELSE variable.value

\* newVM of package template, one iteration of its loop
NewVMGlobal(p, i, global, init) ==
    IF global.pkg = "main"
    THEN IF init = "absent" THEN NewCell(p, i)
         ELSE IF init = "reflect.Value" THEN Host(i)
         ELSE IF init = "value" THEN NewCell(p, i)
         ELSE PanicCell
    ELSE global.value

\* the run p appends the value c of the global i to its vector; a cell made
\* by reflect.New holds the initializer (1) or the zero value
AppendGlobal(p, i, c, init) ==
    /\ runPc' = [runPc EXCEPT ![p] =
                    IF c = PanicCell THEN "panic"
                    ELSE IF i = NumGlobals(api) THEN "running" ELSE @]
    /\ values' = [values EXCEPT ![p] = IF c = PanicCell THEN @ ELSE Append(@, c)]
    /\ IF c.kind = "new"
       THEN /\ mem' = [mem EXCEPT ![c] = IF init = "value" THEN 1 ELSE 0]
            /\ writer' = [writer EXCEPT ![c] = 0]
            /\ written' = [written EXCEPT ![p] = @ \cup {c}]
            /\ accessed' = [accessed EXCEPT ![p] = @ \cup {c, Field(i)}]
       ELSE /\ UNCHANGED <<mem, writer, written>>
            /\ accessed' = [accessed EXCEPT ![p] = @ \cup {Field(i)}]
    /\ perRun' = [perRun EXCEPT ![p] =
                    IF tglobals[i].value = NoCell /\ init \in {"absent", "value"}
                    THEN @ \cup {i} ELSE @]

\* Load of package template or Build of package templates: the template t
\* is built and its globals are stored
Build(a, t) ==
    /\ api = "none"
    /\ api' = a
    /\ tglobals' = [i \in 1..NumGlobals(a) |-> Global(t, i)]
    /\ lastRead' = <<>>
    /\ UNCHANGED <<mem, writer, runPc, values, perRun, written, accessed>>
    /\ UNCHANGED <<vmVars, regVars, rndVars, auxVars>>

\* Template.Render of package template, the assignments to t.globals[0],
\* t.globals[1] and t.globals[2]
RenderSet(p) ==
    /\ api = "Render"
    /\ runPc[p] \in {"idle", "set1", "set2"}
    /\ LET k == IF runPc[p] = "idle" THEN 1 ELSE IF runPc[p] = "set1" THEN 2 ELSE 3
       IN /\ tglobals' = [tglobals EXCEPT ![k].value = Local(p, k)]
          /\ written' = [written EXCEPT ![p] = @ \cup {Field(k)}]
          /\ accessed' = [accessed EXCEPT ![p] = @ \cup {Field(k)}]
          /\ runPc' = [runPc EXCEPT ![p] =
                          IF k = 1 THEN "set1" ELSE IF k = 2 THEN "set2" ELSE "init"]
    /\ UNCHANGED <<api, mem, writer, values, perRun>>
    /\ lastRead' = <<>>
    /\ UNCHANGED <<vmVars, regVars, rndVars, auxVars>>

\* newVM, one iteration of the loop over the globals
NewVMStep(p, init) ==
    /\ api = "Render"
    /\ runPc[p] = "init"
    /\ LET i == Len(values[p]) + 1
       IN /\ (tglobals[i].pkg # "main" => init = "absent")
          /\ AppendGlobal(p, i, NewVMGlobal(p, i, tglobals[i], init), init)
    /\ UNCHANGED <<api, tglobals>>
    /\ lastRead' = <<>>
    /\ UNCHANGED <<vmVars, regVars, rndVars, auxVars>>

\* Template.Run of package templates up to the call of initGlobalVariables
RunCall(p) ==
    /\ api = "Run"
    /\ runPc[p] = "idle"
    /\ runPc' = [runPc EXCEPT ![p] = "init"]
    /\ UNCHANGED <<api, tglobals, mem, writer, values, perRun, written, accessed>>
    /\ lastRead' = <<>>
    /\ UNCHANGED <<vmVars, regVars, rndVars, auxVars>>

\* initGlobalVariables, one iteration of the loop over the variables
InitGlobalVariablesStep(p, init) ==
    /\ api = "Run"
    /\ runPc[p] = "init"
    /\ LET i == Len(values[p]) + 1
       IN /\ (tglobals[i].pkg # "main" => init = "absent")
          /\ AppendGlobal(p, i, InitGlobalVariable(p, i, tglobals[i], init), init)
    /\ UNCHANGED <<api, tglobals>>
    /\ lastRead' = <<>>
    /\ UNCHANGED <<vmVars, regVars, rndVars, auxVars>>

\* the running template assigns v to its global i
SetGlobal(p, i, v) ==
    /\ runPc[p] = "running"
    /\ i > Builtins(api)
    /\ values[p][i] # NoCell
    /\ mem' = [mem EXCEPT ![values[p][i]] = v]
    /\ writer' = [writer EXCEPT ![values[p][i]] = p]
    /\ written' = [written EXCEPT ![p] = @ \cup {values[p][i]}]
    /\ accessed' = [accessed EXCEPT ![p] = @ \cup {values[p][i]}]
    /\ UNCHANGED <<api, tglobals, runPc, values, perRun>>
    /\ lastRead' = <<>>
    /\ UNCHANGED <<vmVars, regVars, rndVars, auxVars>>

\* the running template reads its global i; what it emits goes through out,
\* write and render together
ReadGlobal(p, i) ==
    /\ runPc[p] = "running"
    /\ values[p][i] # NoCell
    /\ lastRead' = <<[run |-> p, idx |-> i, v |-> mem[values[p][i]],
                      by |-> writer[values[p][i]]]>>
    /\ accessed' = [accessed EXCEPT ![p] = @ \cup
                        (IF i <= Builtins(api) THEN {values[p][k] : k \in 1..Builtins(api)}
                         ELSE {values[p][i]})]
    /\ UNCHANGED <<api, tglobals, runPc, values, perRun, mem, writer, written>>
    /\ UNCHANGED <<vmVars, regVars, rndVars, auxVars>>

\* the run returns
Finish(p) ==
    /\ runPc[p] = "running"
    /\ runPc' = [runPc EXCEPT ![p] = "done"]
    /\ UNCHANGED <<api, tglobals, mem, writer, values, perRun, written, accessed>>
    /\ lastRead' = <<>>
    /\ UNCHANGED <<vmVars, regVars, rndVars, auxVars>>

InitRuns ==
    /\ api = "none"
    /\ tglobals = <<>>
    /\ mem = [c \in Cells |-> IF c.kind = "local" THEN 1 ELSE 0]
    /\ writer = [c \in Cells |-> IF c.kind = "local" THEN c.run ELSE 0]
    /\ runPc = [p \in Runs |-> "idle"]
    /\ values = [p \in Runs |-> <<>>]
    /\ perRun = [p \in Runs |-> {}]
    /\ lastRead = <<>>
    /\ written = [p \in Runs |-> {}]
    /\ accessed = [p \in Runs |-> {}]

(***************************************************************************)
(* Package template: rendering.render, the loop over the nodes of a tree,  *)
(* called by render of the package of Dir with the handler that collects   *)
(* the errors.  The tree is any tree: each step draws the next node of the *)
(* innermost node list with the outcome of its expressions.  The writer is *)
(* taken not to fail, the else of an if is absent or a block, and the      *)
(* nodes are Text, URL, Value, If, TypeSwitch, Break and Assignment.       *)
(***************************************************************************)
Chars == {"a", "?", "#", ","}

\* node.Text
Texts == UNION {[1..n -> Chars] : n \in 0..MaxText}

Contains(text, ch) == \E i \in 1..Len(text) : text[i] = ch

ContainsAny(text, chs) == \E i \in 1..Len(text) : text[i] \in chs

\* node.Text[node.Cut.Left : len(node.Text)-node.Cut.Right]
Cut(text, l, r) == SubSeq(text, l + 1, Len(text) - r)

\* a call of render for the body of a case of a Switch: dflt is
\* defaultCase != nil and ft is c.Fallthrough; base is len(r.vars) when the
\* statement that makes the call is reached, 0 until the call is made
SwitchFrame(kind, dflt, ft) == [kind |-> kind, dflt |-> dflt, ft |-> ft, base |-> 0]

\* the frame f of a statement reached with b scopes in r.vars
Based(f, b) == [f EXCEPT !.base = b]

Frame(kind, dflt) == SwitchFrame(kind, dflt, FALSE)

\* &urlState{true, false, isSet, false}
NewURLState(isSet) == [path |-> TRUE, query |-> FALSE, isSet |-> isSet, addAmp |-> FALSE]

\* the error errorf builds for the node being rendered: an *Error when the
\* node has a position, an error of fmt otherwise
Errorf(hasPos) == [pos |-> rnodes + 1, typed |-> hasPos]

\* the error r.eval and r.renderAssignment return: an *Error with the
\* position of the expression
EvalError == [pos |-> rnodes + 1, typed |-> TRUE]

\* errBreak
ErrBreak == [pos |-> rnodes + 1, typed |-> FALSE]

\* the handler of render takes an *Error and answers true, and answers false
\* for any other error; the handler of TestErrors answers true for any error
HandleError(e) == rhandler = "always" \/ e.typed

\* the first of the errors rs the handler does not take, 0 when it takes all
FirstUnhandled(rs) ==
    IF \A i \in 1..Len(rs) : HandleError(rs[i]) THEN 0
    ELSE CHOOSE i \in 1..Len(rs) :
            /\ ~HandleError(rs[i])
            /\ \A j \in 1..(i - 1) : HandleError(rs[j])

\* Text in a URL: the text that is left to write once "?" is dropped
TextLeft(u, text) ==
    IF ~u.query /\ ContainsAny(text, {"?", "#"}) /\ text[1] = "?" /\ ~u.path
    THEN Tail(text) ELSE text

\* Text in a URL: what is written
TextWritten(u, text) ==
    IF ~u.query /\ ContainsAny(text, {"?", "#"}) /\ text[1] = "?" /\ ~u.path /\ u.addAmp
    THEN <<"&amp;">> \o TextLeft(u, text) ELSE TextLeft(u, text)

\* the comma test of Text, made only when the writer is not in query state
CommaTest(u) == ~u.query

\* Text in a URL: the urlState after the text
TextURLState(u, text) ==
    LET u1 == IF ~u.query /\ ContainsAny(text, {"?", "#"})
              THEN [u EXCEPT !.path = FALSE, !.query = TRUE] ELSE u
    IN IF CommaTest(u) /\ u.isSet /\ Contains(TextLeft(u, text), ",")
       THEN [u1 EXCEPT !.path = TRUE, !.query = FALSE] ELSE u1

\* renderValue in a URL: a value with a "?" rendered in path state ends the
\* path, and the value tells whether an "&" has to precede what follows
ValueURLState(us, hasQuery, amp) ==
    IF us # <<>> /\ us[1].path /\ hasQuery
    THEN <<[us[1] EXCEPT !.path = FALSE, !.addAmp = amp]>> ELSE us

\* a node is fetched from the innermost node list
FetchCase(kind, failed) ==
    /\ rstatus = "rendering"
    /\ rnodes < MaxNodes
    /\ rnodes' = rnodes + 1
    /\ lastNode' = kind
    /\ lastScan' = failed
    /\ prevUrl' = urlstate
    /\ UNCHANGED rhandler

Fetch(kind) == FetchCase(kind, <<>>)

\* the node list of the innermost call of render is exhausted
Exhausted(kinds) ==
    /\ rstatus = "rendering"
    /\ rframes[Len(rframes)].kind \in kinds
    /\ lastNode' = "end"
    /\ lastScan' = <<>>
    /\ prevUrl' = urlstate
    /\ lastText' = <<>> /\ lastWrite' = <<>>
    /\ UNCHANGED <<rhandler, rnodes, errs, occurred>>

\* a run-time panic of Go (a slice expression out of range, a failed type
\* assertion) unwinds every call of render
Panic ==
    /\ rstatus' = "panic"
    /\ rframes' = <<>>
    /\ urlstate' = <<>>
    /\ UNCHANGED <<rscopes, rresult>>

\* the case of a node is over: rs are the errors given to the handler, in
\* order, fatal is <<the error returned without asking the handler>>, and
\* frames2, scopes2 and url2 are the state when the loop goes on; scopes2 is
\* negative when cutting r.vars is out of range
Complete(rs, fatal, frames2, scopes2, url2) ==
    LET k == FirstUnhandled(rs)
        took == IF k > 0 THEN SubSeq(rs, 1, k - 1) ELSE rs
        all == IF k > 0 THEN SubSeq(rs, 1, k) ELSE rs \o fatal
    IN /\ errs' = errs \o took
       /\ occurred' = occurred \o all
       /\ IF k > 0 \/ fatal # <<>>
          THEN /\ rstatus' = "returned"
               /\ rresult' = [kind |-> "error", errs |-> <<all[Len(all)]>>]
               /\ rframes' = <<>>
               /\ urlstate' = <<>>
               /\ UNCHANGED rscopes
          ELSE IF scopes2 < 0
          THEN Panic
          ELSE /\ rframes' = IF Len(frames2) > Len(rframes)
                            THEN [frames2 EXCEPT ![Len(frames2)] = Based(@, rscopes)]
                            ELSE frames2
               /\ rscopes' = scopes2
               /\ urlstate' = url2
               /\ UNCHANGED <<rstatus, rresult>>

\* r.vars = r.vars[:len(r.vars)-n] at the end of a statement whose body has
\* been rendered, then the loop over the nodes goes on
Unwind(n) ==
    IF rscopes < n
    THEN Panic
    ELSE /\ rscopes' = rscopes - n
         /\ rframes' = SubSeq(rframes, 1, Len(rframes) - 1)
         /\ UNCHANGED <<rstatus, urlstate, rresult>>

\* case *ast.Text
RenderText(text, l, r) ==
    /\ Fetch("text")
    /\ l + r <= Len(text)
    /\ IF urlstate = <<>>
       THEN /\ lastText' = <<>> /\ lastWrite' = <<>>
            /\ UNCHANGED urlstate
       ELSE IF Len(Cut(text, l, r)) = 0
       THEN /\ lastText' = <<>> /\ lastWrite' = <<>>
            /\ UNCHANGED urlstate
       ELSE /\ lastText' = Cut(text, l, r)
            /\ lastWrite' = TextWritten(urlstate[1], Cut(text, l, r))
            /\ urlstate' = <<TextURLState(urlstate[1], Cut(text, l, r))>>
    /\ UNCHANGED <<rstatus, rframes, rscopes, errs, rresult, occurred>>
    /\ UNCHANGED <<vmVars, regVars, tplVars, auxVars>>

\* case *ast.URL, up to the call of render for node.Value
BeginURL(attribute) ==
    /\ Fetch("url")
    /\ urlstate = <<>>
    /\ Len(rframes) <= MaxDepth
    /\ rframes' = Append(rframes, Based(Frame("url", FALSE), rscopes))
    /\ urlstate' = <<NewURLState(attribute = "srcset")>>
    /\ lastText' = <<>> /\ lastWrite' = <<>>
    /\ UNCHANGED <<rstatus, rscopes, errs, rresult, occurred>>
    /\ UNCHANGED <<vmVars, regVars, tplVars, auxVars>>

\* case *ast.URL, after render has returned nil for node.Value
EndURL ==
    /\ Exhausted({"url"})
    /\ rframes' = SubSeq(rframes, 1, Len(rframes) - 1)
    /\ urlstate' = <<>>
    /\ UNCHANGED <<rstatus, rscopes, rresult>>
    /\ UNCHANGED <<vmVars, regVars, tplVars, auxVars>>

\* case *ast.Value
RenderValue(evalFails, hasQuery, amp) ==
    /\ Fetch("value")
    /\ lastText' = <<>>
    /\ IF evalFails
       THEN /\ Complete(<<EvalError>>, <<>>, rframes, rscopes, urlstate)
            /\ lastWrite' = <<>>
       ELSE /\ Complete(<<>>, <<>>, rframes, rscopes,
                        ValueURLState(urlstate, hasQuery, amp))
            /\ lastWrite' = <<>>
    /\ UNCHANGED <<vmVars, regVars, tplVars, auxVars>>

\* case *ast.If, up to the call of render for the branch taken
RenderIf(assignment, condition, hasPos, thenEmpty, else) ==
    /\ Fetch("if")
    /\ lastText' = <<>> /\ lastWrite' = <<>>
    /\ LET rs == IF assignment = "fails" \/ condition = "fails" THEN <<EvalError>>
                 ELSE IF condition = "non-bool" THEN <<Errorf(hasPos)>>
                 ELSE <<>>
           c == assignment # "fails" /\ condition = "true"
       IN IF c /\ ~thenEmpty
          THEN /\ Len(rframes) <= MaxDepth
               /\ Complete(rs, <<>>, Append(rframes, Frame("then", FALSE)),
                           rscopes + 1, urlstate)
          ELSE IF ~c /\ else = "block"
          THEN /\ Len(rframes) <= MaxDepth
               /\ Complete(rs, <<>>, Append(rframes, Frame("else", FALSE)),
                           rscopes + 2, urlstate)
          ELSE Complete(rs, <<>>, rframes, rscopes, urlstate)
    /\ UNCHANGED <<vmVars, regVars, tplVars, auxVars>>

\* case *ast.If, after the branch: r.vars is cut by the scope of the if and,
\* for an else block, by the scope of renderBlock
EndIf ==
    /\ Exhausted({"then", "else"})
    /\ Unwind(IF rframes[Len(rframes)].kind = "then" THEN 1 ELSE 2)
    /\ UNCHANGED <<vmVars, regVars, tplVars, auxVars>>

\* case *ast.TypeSwitch, up to the call of render for the body of a case.
\* scan is the outcome of the loop over the cases: a case matches, only the
\* default is left, none, the expression of a case fails, or it is not a
\* type; dflt tells that the default case precedes the matching case.
RenderTypeSwitch(init, blank, guardFails, scan, dflt, hasPos) ==
    /\ Fetch("typeswitch")
    /\ lastText' = <<>> /\ lastWrite' = <<>>
    /\ (dflt => scan = "case")
    /\ LET r1 == IF init = "fails" THEN <<EvalError>> ELSE <<>>
           r2 == IF ~blank /\ guardFails THEN <<EvalError>> ELSE <<>>
           r3 == IF scan = "fails" THEN <<EvalError>> ELSE <<>>
           rs == IF blank /\ guardFails THEN r1 ELSE r1 \o r2 \o r3
           fatal == IF blank /\ guardFails THEN <<EvalError>>
                    ELSE IF scan \in {"fails", "not a type"} THEN <<Errorf(hasPos)>>
                    ELSE <<>>
       IN IF scan \in {"case", "default"}
          THEN /\ Len(rframes) <= MaxDepth
               /\ Complete(rs, fatal, Append(rframes, Frame(scan, dflt)),
                           rscopes + 2, urlstate)
          ELSE Complete(rs, fatal, rframes, rscopes, urlstate)
    /\ UNCHANGED <<vmVars, regVars, tplVars, auxVars>>

\* case *ast.TypeSwitch, after the body of the case or of the default
EndCase ==
    /\ Exhausted({"case", "default"})
    /\ Unwind(2)
    /\ UNCHANGED <<vmVars, regVars, tplVars, auxVars>>

\* the value evalBinary returns with an error: nil as r.eval does, or false
EvalBinaryFailure == {"nil", "false"}

\* case *ast.Switch, up to the call of render for the body of a case. fails
\* is "no" or the value evalBinary returns with an error for the expression
\* of a case that precedes the outcome of the loop: scan is "case" when the
\* expression of a case is equal to the condition and "none" otherwise; dflt
\* tells that the default case has been met by then; ft is c.Fallthrough.
RenderSwitch(init, cond, fails, scan, dflt, ft) ==
    LET r1 == IF init = "fails" THEN <<EvalError>> ELSE <<>>
        r2 == IF cond = "fails" THEN <<EvalError>> ELSE <<>>
        r3 == IF fails # "no" THEN <<EvalError>> ELSE <<>>
        rs == r1 \o r2 \o r3
    IN /\ FetchCase("switch", IF fails # "no" /\ FirstUnhandled(rs) = 0
                              THEN <<fails>> ELSE <<>>)
       /\ lastText' = <<>> /\ lastWrite' = <<>>
       /\ (scan = "none" => ~ft)
       /\ IF fails = "nil" /\ FirstUnhandled(rs) = 0
          THEN \* res.(bool) with a nil res
               /\ errs' = errs \o rs
               /\ occurred' = occurred \o rs
               /\ Panic
          ELSE IF scan = "case"
          THEN /\ Len(rframes) <= MaxDepth
               /\ Complete(rs, <<>>, Append(rframes, SwitchFrame("swcase", dflt, ft)),
                           rscopes + 2, urlstate)
          ELSE IF dflt
          THEN /\ Len(rframes) <= MaxDepth
               /\ Complete(rs, <<>>, Append(rframes, SwitchFrame("swdefault", FALSE, FALSE)),
                           rscopes + 2, urlstate)
          ELSE Complete(rs, <<>>, rframes, rscopes, urlstate)
       /\ UNCHANGED <<vmVars, regVars, tplVars, auxVars>>

\* case *ast.Switch, after the body of a case. With a fallthrough the loop
\* goes on with the next case, if any, which may be the default case and may
\* fall through in turn; otherwise r.vars is cut by two scopes, the loop is
\* left and r.vars is cut by two scopes again.
EndSwitchCase(next, ft) ==
    /\ Exhausted({"swcase"})
    /\ LET f == rframes[Len(rframes)]
           rest == SubSeq(rframes, 1, Len(rframes) - 1)
       IN IF ~f.ft
          THEN /\ next = "none" /\ ~ft
               /\ Unwind(4)
          ELSE IF next = "none"
          THEN /\ ~ft
               /\ IF f.dflt
                  THEN /\ rframes' = Append(rest, Based(SwitchFrame("swdefault", FALSE, FALSE),
                                                         f.base))
                       /\ UNCHANGED <<rstatus, rscopes, urlstate, rresult>>
                  ELSE Unwind(2)
          ELSE /\ rframes' = Append(rest, Based(SwitchFrame("swcase",
                                                             f.dflt \/ next = "default", ft),
                                                 f.base))
               /\ UNCHANGED <<rstatus, rscopes, urlstate, rresult>>
    /\ UNCHANGED <<vmVars, regVars, tplVars, auxVars>>

\* case *ast.Switch, after the body of the default case
EndSwitch ==
    /\ Exhausted({"swdefault"})
    /\ Unwind(2)
    /\ UNCHANGED <<vmVars, regVars, tplVars, auxVars>>

\* the innermost call of render made for the body of a case, 0 if none
InnermostCase(fs) ==
    IF \E i \in 1..Len(fs) : fs[i].kind \in {"case", "swcase"}
    THEN CHOOSE i \in 1..Len(fs) :
            /\ fs[i].kind \in {"case", "swcase"}
            /\ \A j \in (i + 1)..Len(fs) : fs[j].kind \notin {"case", "swcase"}
    ELSE 0

\* case *ast.Break: errBreak is returned by every call of render up to the
\* body of a case, where the switch leaves the loop over the cases and
\* renders the default case if it has seen one
RenderBreak ==
    /\ Fetch("break")
    /\ lastText' = <<>> /\ lastWrite' = <<>>
    /\ LET j == InnermostCase(rframes)
           url2 == IF j > 0 /\ \E i \in (j + 1)..Len(rframes) : rframes[i].kind = "url"
                   THEN <<>> ELSE urlstate
       IN IF j = 0
          THEN Complete(<<>>, <<ErrBreak>>, rframes, rscopes, urlstate)
          ELSE IF rframes[j].dflt
          THEN Complete(<<>>, <<>>,
                        Append(SubSeq(rframes, 1, j - 1),
                               Based(Frame(IF rframes[j].kind = "case" THEN "default"
                                           ELSE "swdefault", FALSE),
                                     rframes[j].base)),
                        rscopes, url2)
          ELSE Complete(<<>>, <<>>, SubSeq(rframes, 1, j - 1), rscopes - 2, url2)
    /\ UNCHANGED <<vmVars, regVars, tplVars, auxVars>>

\* case *ast.Assignment
RenderAssignment(fails) ==
    /\ Fetch("assignment")
    /\ lastText' = <<>> /\ lastWrite' = <<>>
    /\ Complete(IF fails THEN <<EvalError>> ELSE <<>>, <<>>,
                rframes, rscopes, urlstate)
    /\ UNCHANGED <<vmVars, regVars, tplVars, auxVars>>

\* the nodes of the tree are exhausted: RenderTree returns nil; render
\* returns errs if it is not nil, and Execute returns nil
EndTree ==
    /\ Exhausted({"tree"})
    /\ rstatus' = "returned"
    /\ rresult' = IF rhandler = "collect" /\ errs # <<>>
                  THEN [kind |-> "RenderErrors", errs |-> errs]
                  ELSE [kind |-> "nil", errs |-> <<>>]
    /\ rframes' = <<>>
    /\ UNCHANGED <<rscopes, urlstate>>
    /\ UNCHANGED <<vmVars, regVars, tplVars, auxVars>>

InitRendering(handler) ==
    /\ rhandler = handler
    /\ lastScan = <<>>
    /\ rstatus = "rendering"
    /\ rframes = <<Frame("tree", FALSE)>>
    /\ rscopes = 3
    /\ urlstate = <<>>
    /\ errs = <<>>
    /\ rresult = [kind |-> "none", errs |-> <<>>]
    /\ rnodes = 0
    /\ occurred = <<>>
    /\ lastNode = "none"
    /\ prevUrl = <<>>
    /\ lastText = <<>>
    /\ lastWrite = <<>>

\* render of the package of Dir calls RenderTree with its handler
InitRender == InitRendering("collect")

InitVM ==
    /\ fn = 0
    /\ cvars = Nil
    /\ fp = <<0, 0, 0, 0>>
    /\ st = [i \in 1..4 |-> InitStack]
    /\ pc = 0
    /\ calls = <<>>
    /\ ok = FALSE
    /\ status = "running"
    /\ cancelled = FALSE
    /\ lastOp = "none"
    /\ shadow = <<>>
    /\ expect = <<>>
    /\ depth0 = 0
    /\ safepoints = 0

InitRegs ==
    /\ regI = [r \in IntRegs |-> 0]
    /\ regF = [r \in FloatRegs |-> 0]
    /\ regS = [r \in StringRegs |-> ""]
    /\ regG = [r \in GeneralRegs |-> NilVal]
    /\ present = FALSE
    /\ matched = FALSE
    /\ dest = <<>>

\* ------------------------------------------------------------------------
\* The type checker: scopes, unused variables and checking errors

Names == {"a", "b", "c"}

NoDecl == <<>>

\* a declaration: the block it is made in and its identifier node, whose
\* position is id
Decl(block, id) == <<[block |-> block, id |-> id]>>

\* make(typeCheckerScope)
EmptyScope == [n \in Names |-> NoDecl]

\* the universe block declares a and b
Universe == [n \in Names |-> IF n \in {"a", "b"} THEN Decl("universe", 0) ELSE NoDecl]

\* the file/package block declares a
FilePackageBlock == [n \in Names |-> IF n = "a" THEN Decl("package", 0) ELSE NoDecl]

Found(name, d) == [name |-> name, found |-> TRUE, decl |-> d]

NotFound(name) == [name |-> name, found |-> FALSE, decl |-> NoDecl]

\* lookupScopes, after the loop over the scopes
LookupBlocks(name) ==
    IF tcblock[name] # NoDecl THEN Found(name, tcblock[name])
    ELSE IF tcuniverse[name] # NoDecl THEN Found(name, tcuniverse[name])
    ELSE NotFound(name)

\* lookupScopes, the loop over the scopes from index i and outwards
RECURSIVE LookupOutwards(_, _, _)
LookupOutwards(i, name, justCurrentScope) ==
    IF i = 0 THEN LookupBlocks(name)
    ELSE IF tcscopes[i][name] # NoDecl THEN Found(name, tcscopes[i][name])
    ELSE IF justCurrentScope /\ i = Len(tcscopes) THEN NotFound(name)
    ELSE LookupOutwards(i - 1, name, justCurrentScope)

\* a lookup that iterates over the scopes from outside
RECURSIVE LookupInwards(_, _)
LookupInwards(i, name) ==
    IF i > Len(tcscopes) THEN LookupBlocks(name)
    ELSE IF tcscopes[i][name] # NoDecl THEN Found(name, tcscopes[i][name])
    ELSE LookupInwards(i + 1, name)

LookupScopesFromOutside(name, justCurrentScope) ==
    IF justCurrentScope THEN LookupOutwards(Len(tcscopes), name, TRUE)
    ELSE LookupInwards(1, name)
LookupScopes(name, justCurrentScope) ==
    LookupOutwards(Len(tcscopes), name, justCurrentScope)

\* path of the file that is checked
Path == "/index.html"

\* checkError: the error built for a node, pos is <<>> for a nil position
CheckError(path, pos) ==
    IF pos = <<>> THEN [checking |-> FALSE, path |-> "", pos |-> <<>>]
    ELSE [checking |-> TRUE, path |-> path, pos |-> pos]

\* panic(tc.errorf(node, ...)) under checkNodesError: a *CheckingError is
\* returned, any other value panics again
CheckNodesError(err) ==
    /\ tcerr' = <<err>>
    /\ tcstatus' = IF err.checking THEN "returned" ELSE "panic"

Checking == tcstatus = "checking"

\* newTypechecker: the scopes allow unused declarations in templates
NewTypechecker(mod) ==
    /\ tcmod = "none"
    /\ tcmod' = mod
    /\ allowUnused' = (mod = "template")
    /\ tcstatus' = "checking"
    /\ lastLookup' = <<>> /\ lastRemoved' = <<>>
    /\ UNCHANGED <<tcscopes, tcblock, tcuniverse, unusedVars, tcdecls, tcerr,
                   popped, usedDecls>>
    /\ UNCHANGED exceptChk

\* tc.isScript
IsScript == tcmod = "script"

\* addScope
AddScope ==
    /\ Checking
    /\ Len(tcscopes) < MaxScopes
    /\ tcscopes' = Append(tcscopes, EmptyScope)
    /\ lastLookup' = <<>> /\ lastRemoved' = <<>>
    /\ UNCHANGED <<tcmod, allowUnused, tcstatus, tcblock, tcuniverse, unusedVars,
                   tcdecls, tcerr, popped, usedDecls>>
    /\ UNCHANGED exceptChk

\* assignScope
AssignScope(name, d) ==
    tcscopes' = [tcscopes EXCEPT ![Len(tcscopes)][name] = d]

\* the declaration of a local variable that the current scope does not
\* declare yet
DeclareVar(name) ==
    /\ Checking
    /\ Len(tcscopes) > 0
    /\ tcdecls < MaxDecls
    /\ ~LookupScopes(name, TRUE).found
    /\ tcdecls' = tcdecls + 1
    /\ AssignScope(name, Decl("scope", tcdecls + 1))
    /\ unusedVars' = Append(unusedVars, [ident |-> name,
                                         scopeLevel |-> Len(tcscopes) - 1,
                                         node |-> <<tcdecls + 1>>])
    /\ lastLookup' = <<>> /\ lastRemoved' = <<>>
    /\ UNCHANGED <<tcmod, allowUnused, tcstatus, tcblock, tcuniverse, tcerr,
                   popped, usedDecls>>
    /\ UNCHANGED exceptChk

\* the last variable of unusedVars named ident, 0 if none
LastUnused(ident) ==
    IF \E i \in 1..Len(unusedVars) : unusedVars[i].ident = ident
    THEN CHOOSE i \in 1..Len(unusedVars) :
            /\ unusedVars[i].ident = ident
            /\ \A j \in (i + 1)..Len(unusedVars) : unusedVars[j].ident # ident
    ELSE 0

\* checkIdentifier with using: the name is looked up, an undefined name is
\* an error at the identifier, and the variable is not unused any more
Use(name) ==
    /\ Checking
    /\ LET r == LookupScopes(name, FALSE)
           i == LastUnused(name)
       IN /\ lastLookup' = <<r>>
          /\ IF ~r.found
             THEN /\ CheckNodesError(CheckError(Path, <<tcdecls + 1>>))
                  /\ UNCHANGED <<unusedVars, usedDecls>>
             ELSE /\ unusedVars' = IF i > 0
                                   THEN [unusedVars EXCEPT ![i].node = <<>>]
                                   ELSE unusedVars
                  /\ usedDecls' = IF r.decl[1].block = "scope"
                                  THEN usedDecls \cup {r.decl[1].id} ELSE usedDecls
                  /\ UNCHANGED <<tcstatus, tcerr>>
    /\ lastRemoved' = <<>>
    /\ UNCHANGED <<tcmod, allowUnused, tcscopes, tcblock, tcuniverse, tcdecls, popped>>
    /\ UNCHANGED exceptChk

\* removeCurrentScope: the variables of unusedVars that the loop visits
Visited ==
    {i \in 1..Len(unusedVars) :
        \A j \in i..Len(unusedVars) : unusedVars[j].scopeLevel >= Len(tcscopes) - 1}

\* the identifiers of the declarations of the current scope
DeclaredHere == {tcscopes[Len(tcscopes)][n][1].id : n \in {m \in Names : tcscopes[Len(tcscopes)][m] # NoDecl}}

\* removeCurrentScope
RemoveCurrentScope ==
    /\ Checking
    /\ Len(tcscopes) > 0
    /\ lastLookup' = <<>>
    /\ lastRemoved' = <<[unused |-> DeclaredHere \ usedDecls # {}]>>
    /\ LET bad == {i \in Visited : unusedVars[i].node # <<>>}
           last == CHOOSE i \in bad : \A j \in bad : j <= i
       IN IF ~IsScript /\ ~allowUnused /\ bad # {}
          THEN /\ CheckNodesError(CheckError(Path, unusedVars[last].node))
               /\ UNCHANGED <<tcscopes, unusedVars, popped, usedDecls>>
          ELSE /\ unusedVars' = IF ~IsScript
                                THEN SubSeq(unusedVars, 1, Len(unusedVars) - Cardinality(Visited))
                                ELSE unusedVars
               /\ tcscopes' = SubSeq(tcscopes, 1, Len(tcscopes) - 1)
               /\ popped' = popped \cup DeclaredHere
               /\ usedDecls' = usedDecls \ DeclaredHere
               /\ UNCHANGED <<tcstatus, tcerr>>
    /\ UNCHANGED <<tcmod, allowUnused, tcblock, tcuniverse, tcdecls>>
    /\ UNCHANGED exceptChk

\* a check fails on a node: panic(tc.errorf(node, ...)). The node comes from
\* the parser or is the assignment that checkReturn builds with a nil
\* position
FailNode(synthetic) ==
    /\ Checking
    /\ CheckNodesError(CheckError(Path, IF synthetic THEN <<>> ELSE <<tcdecls + 1>>))
    /\ lastLookup' = <<>> /\ lastRemoved' = <<>>
    /\ UNCHANGED <<tcmod, allowUnused, tcscopes, tcblock, tcuniverse, unusedVars,
                   tcdecls, popped, usedDecls>>
    /\ UNCHANGED exceptChk

\* checkNodesError returns the nodes and a nil error
CheckNodesReturn ==
    /\ Checking
    /\ Len(tcscopes) = 0
    /\ tcstatus' = "returned"
    /\ lastLookup' = <<>> /\ lastRemoved' = <<>>
    /\ UNCHANGED <<tcmod, allowUnused, tcscopes, tcblock, tcuniverse, unusedVars,
                   tcdecls, tcerr, popped, usedDecls>>
    /\ UNCHANGED exceptChk

InitChecker ==
    /\ tcmod = "none"
    /\ allowUnused = FALSE
    /\ tcstatus = "idle"
    /\ tcscopes = <<>>
    /\ tcblock = FilePackageBlock
    /\ tcuniverse = Universe
    /\ unusedVars = <<>>
    /\ tcdecls = 0
    /\ tcerr = <<>>
    /\ lastLookup = <<>>
    /\ lastRemoved = <<>>
    /\ popped = {}
    /\ usedDecls = {}

\* ------------------------------------------------------------------------
\* typecheck of a template file that may extend another file

\* the nodes: "blank" is a Text with white space only, "text" any other
\* Text, "show" any other statement
Kinds == {"comment", "blank", "text", "extends", "macro", "show"}

Trees == UNION {[1..n -> Kinds] : n \in 1..MaxTree}

\* getExtends: the index of the Extends node, 0 when it returns false
RECURSIVE GetExtendsFrom(_, _)
GetExtendsFrom(nodes, i) ==
    IF i > Len(nodes) THEN 0
    ELSE IF nodes[i] \in {"comment", "blank", "text"} THEN GetExtendsFrom(nodes, i + 1)
    ELSE IF nodes[i] = "extends" THEN i
    ELSE 0

GetExtends(nodes) == GetExtendsFrom(nodes, 1)

\* tree.Nodes[1:]: the index of its first node
FirstOfRestSkipping(nodes) == 3
FirstOfRest(nodes) == 2

Macros(nodes) == {i \in 1..Len(nodes) : nodes[i] = "macro"}

\* the parser returns the tree of the file
ParseTree(nodes) ==
    /\ xphase = "idle"
    /\ xtree' = nodes
    /\ xphase' = "typecheck"
    /\ UNCHANGED <<xi, xextends, xscope, xext, xbodies>>
    /\ UNCHANGED exceptExt

\* typecheck: if extends, ok := getExtends(tree.Nodes); ok
TypecheckStart ==
    /\ xphase = "typecheck"
    /\ xextends' = GetExtends(xtree)
    /\ IF GetExtends(xtree) > 0
       THEN /\ xphase' = "declare"
            /\ xi' = FirstOfRest(xtree)
       ELSE /\ xphase' = "nodes"
            /\ UNCHANGED xi
    /\ UNCHANGED <<xtree, xscope, xext, xbodies>>
    /\ UNCHANGED exceptExt

\* First: one iteration of the loop over tree.Nodes[1:], which declares the
\* macros without checking their bodies
DeclareMacro ==
    /\ xphase = "declare"
    /\ IF xi > Len(xtree)
       THEN /\ xphase' = "extended"
            /\ UNCHANGED <<xi, xscope>>
       ELSE /\ xscope' = IF xtree[xi] = "macro" THEN xscope \cup {xi} ELSE xscope
            /\ xi' = xi + 1
            /\ UNCHANGED xphase
    /\ UNCHANGED <<xtree, xextends, xext, xbodies>>
    /\ UNCHANGED exceptExt

\* Second: checkNodesInNewScopeError checks a node of the extended file
CheckExtendedNode(fails) ==
    /\ xphase = "extended"
    /\ xext < MaxExt
    /\ xext' = xext + 1
    /\ xphase' = IF fails THEN "error" ELSE xphase
    /\ UNCHANGED <<xtree, xi, xextends, xscope, xbodies>>
    /\ UNCHANGED exceptExt

\* Third: the extended file is checked, the extending file becomes a package
EndExtended ==
    /\ xphase = "extended"
    /\ xext = MaxExt
    /\ xphase' = "package"
    /\ UNCHANGED <<xtree, xi, xextends, xscope, xext, xbodies>>
    /\ UNCHANGED exceptExt

\* checkPackage checks the body of a macro of the package
CheckMacroBody(m) ==
    /\ xphase = "package"
    /\ m \in Macros(xtree) \ xbodies
    /\ xbodies' = xbodies \cup {m}
    /\ UNCHANGED <<xtree, xphase, xi, xextends, xscope, xext>>
    /\ UNCHANGED exceptExt

\* checkPackage returns and typecheck returns the package infos
EndPackage ==
    /\ xphase = "package"
    /\ xbodies = Macros(xtree)
    /\ xphase' = "done"
    /\ UNCHANGED <<xtree, xi, xextends, xscope, xext, xbodies>>
    /\ UNCHANGED exceptExt

\* a file that does not extend: checkNodesInNewScopeError checks its nodes,
\* declares its macros and checks their bodies; checkNodes panics when it
\* meets an Extends node
CheckTemplate ==
    /\ xphase = "nodes"
    /\ IF \E i \in 1..Len(xtree) : xtree[i] = "extends"
       THEN /\ xphase' = "panic"
            /\ UNCHANGED <<xscope, xbodies>>
       ELSE /\ xphase' = "done"
            /\ xscope' = Macros(xtree)
            /\ xbodies' = Macros(xtree)
    /\ UNCHANGED <<xtree, xi, xextends, xext>>
    /\ UNCHANGED exceptExt

InitExtends ==
    /\ xtree = <<>>
    /\ xphase = "idle"
    /\ xi = 0
    /\ xextends = 0
    /\ xscope = {}
    /\ xext = 0
    /\ xbodies = {}

NextExtends ==
    \/ \E nodes \in Trees : ParseTree(nodes)
    \/ TypecheckStart
    \/ DeclareMacro
    \/ \E fails \in BOOLEAN : CheckExtendedNode(fails)
    \/ EndExtended
    \/ \E m \in 1..MaxTree : CheckMacroBody(m)
    \/ EndPackage
    \/ CheckTemplate

\* ------------------------------------------------------------------------
\* Paths: IsPath of package ast, validPath and toAbsolutePath of package parser

PathChars == {"a", "A", ".", "/", " "}

Paths == UNION {[1..n -> PathChars] : n \in 0..MaxPath}

\* strings.Split(path, "/")
RECURSIVE Split(_)
Split(path) ==
    IF \E i \in 1..Len(path) : path[i] = "/"
    THEN LET i == CHOOSE k \in 1..Len(path) :
                    path[k] = "/" /\ \A j \in 1..(k - 1) : path[j] # "/"
         IN <<SubSeq(path, 1, i - 1)>> \o Split(SubSeq(path, i + 1, Len(path)))
    ELSE <<path>>

\* strings.Contains(s, sub) for a sub of two characters
Contains2(text, x, y) ==
    \E i \in 1..(Len(text) - 1) : text[i] = x /\ text[i + 1] = y

\* strings.ToLower
ToLower(name) == [i \in 1..Len(name) |-> IF name[i] = "A" THEN "a" ELSE name[i]]

\* strings.LastIndexByte, counted from 1: 0 when c is not in text
LastIndexByte(text, c) ==
    IF \E i \in 1..Len(text) : text[i] = c
    THEN CHOOSE i \in 1..Len(text) :
            text[i] = c /\ \A j \in (i + 1)..Len(text) : text[j] # c
    ELSE 0

Digits == {"0", "1", "2", "3", "4", "5", "6", "7", "8", "9"}

ReservedNames ==
    {<<"c", "o", "n">>, <<"p", "r", "n">>, <<"a", "u", "x">>, <<"n", "u", "l">>}
    \cup {<<"c", "o", "m", d>> : d \in Digits} \cup {<<"l", "p", "t", d>> : d \in Digits}

\* isWindowsReservedName
IsWindowsReservedName(name) ==
    \/ \E i \in 1..Len(name) :
            name[i] \in {"\"", "*", "/", ":", "<", ">", "?", "\\", "|"}
    \/ name \in ReservedNames
    \/ \E r \in ReservedNames :
            /\ Len(name) >= Len(r) + 1
            /\ SubSeq(name, 1, Len(r) + 1) = Append(r, ".")

\* isDirName
IsDirName(name) ==
    /\ ~(name = <<>> \/ Len(name) >= 256)
    /\ ~(name = <<".">> \/ Contains2(name, ".", "."))
    /\ ~(name[1] = " " \/ name[Len(name)] = " ")
    /\ ~IsWindowsReservedName(name)

\* isFileName
IsFileName(name) ==
    /\ ~(Len(name) <= 2 \/ Len(name) >= 256)
    /\ ~(name[1] = "." \/ name[Len(name)] = ".")
    /\ LET lower == ToLower(name)
           dot == LastIndexByte(lower, ".")
           ext == SubSeq(lower, dot + 1, Len(lower))
       IN /\ ~(\E i \in 1..Len(ext) : ext[i] = ".")
          /\ ~(lower[1] = " " \/ lower[Len(lower)] = " ")
          /\ ~IsWindowsReservedName(lower)

\* IsPath
IsPath(path) ==
    /\ ~(path = <<>> \/ path[Len(path)] = "/")
    /\ LET names == Split(path)
       IN /\ \A i \in 1..(Len(names) - 1) :
                \/ i = 1 /\ names[i] = <<>>
                \/ ~(names[i] # <<".", ".">> /\ ~IsDirName(names[i]))
          /\ IsFileName(names[Len(names)])

\* a caller asks whether the path is valid
IsPathCall ==
    /\ pvalid = <<>>
    /\ pvalid' = <<IsPath(ppath)>>
    /\ UNCHANGED <<ppath, adir, arel, aresult>>
    /\ UNCHANGED exceptPath

\* validPath; the paths are of ASCII characters, so utf8.ValidString is true
ValidPath(path) ==
    /\ path # <<>> /\ path # <<".", ".">>
    /\ path[Len(path)] # "/"
    /\ ~Contains2(path, "/", "/")
    /\ ~(Len(path) >= 3 /\ SubSeq(path, Len(path) - 2, Len(path)) = <<"/", ".", ".">>)

\* the outcomes of toAbsolutePath
Returned(path) == [kind |-> "path", path |-> path]

InvalidPath == [kind |-> "error", path |-> <<>>]

\* an index or a slice bound out of range
OutOfRange == [kind |-> "panic", path |-> <<>>]

\* toAbsolutePath: the loop over b, from the byte at index i counted from 1
RECURSIVE Resolve(_, _)
Resolve(b, i) ==
    IF i > Len(b) THEN Returned(b)
    ELSE IF b[i] # "/" THEN Resolve(b, i + 1)
    ELSE IF i + 1 > Len(b) THEN OutOfRange
    ELSE IF b[i + 1] # "." THEN Resolve(b, i + 1)
    ELSE IF i + 2 > Len(b) THEN OutOfRange
    ELSE IF b[i + 2] # "." THEN Resolve(b, i + 1)
    ELSE IF i = 1 THEN InvalidPath
    ELSE LET s == LastIndexByte(SubSeq(b, 1, i - 1), "/")
         IN IF i + 3 > Len(b) THEN OutOfRange
            ELSE IF s = 0 THEN OutOfRange
            ELSE Resolve(SubSeq(b, 1, s) \o SubSeq(b, i + 4, Len(b)), s)

\* toAbsolutePath
ToAbsolutePath(dir, path) ==
    IF ~Contains2(path, ".", ".") THEN Returned(dir \o path)
    ELSE Resolve(dir \o path, 1)

\* the absolute directories of the files that include a path
Dirs == {<<"/">>, <<"/", "a", "/">>}

\* the relative paths
RelPaths ==
    {path \in Paths : /\ path # <<>> /\ path[1] # "/"
                      /\ \A i \in 1..Len(path) : path[i] \in {"a", ".", "/"}}

\* the parser combines the directory of the file with a relative path
ToAbsolutePathCall ==
    /\ aresult = <<>>
    /\ aresult' = <<ToAbsolutePath(adir, arel)>>
    /\ UNCHANGED <<ppath, pvalid, adir, arel>>
    /\ UNCHANGED exceptPath

InitPaths ==
    /\ ppath = <<>>
    /\ pvalid = <<>>
    /\ adir = <<"/">>
    /\ arel = <<>>
    /\ aresult = <<>>

\* ------------------------------------------------------------------------
\* The type checker: binaryOp on the constants of two operands

\* ast.Constant: the fields a string or a boolean constant uses
Constant(defaultType, str, bool) ==
    [DefaultType |-> defaultType, String |-> str, Bool |-> bool]

\* ast.Constant{}
ZeroConstant == Constant("", <<>>, FALSE)

\* the constant of a string literal
StringConstant(str) == Constant("string", str, FALSE)

\* the constants true and false
BoolConstant(bool) == Constant("bool", <<>>, bool)

Strings == UNION {[1..n -> {"a", "b"}] : n \in 0..MaxStr}

Operators == {"==", "!=", "+", "<", "&&", "||"}

\* binaryOp, for an operator that no case takes
InvalidOperation == Constant("invalid operation", <<>>, FALSE)

\* binaryOp, case ast.DefaultTypeString and case ast.DefaultTypeBool
BinaryOp(op, k1, k2) ==
    IF k1.DefaultType = "string"
    THEN IF op \in {"==", "!="}
         THEN Constant("bool", <<>>, IF op = "!=" THEN ~(k1.Bool = k2.Bool)
                                     ELSE k1.Bool = k2.Bool)
         ELSE IF op = "+"
         THEN Constant("string", k1.String \o k2.String, FALSE)
         ELSE ZeroConstant
    ELSE IF op = "==" THEN Constant("bool", <<>>, k1.Bool = k2.Bool)
    ELSE IF op = "!=" THEN Constant("bool", <<>>, k1.Bool # k2.Bool)
    ELSE IF op = "&&" THEN Constant("bool", <<>>, k1.Bool /\ k2.Bool)
    ELSE IF op = "||" THEN Constant("bool", <<>>, k1.Bool \/ k2.Bool)
    ELSE InvalidOperation

\* opIfString with ConditionEqual and ConditionNotEqual: the condition the
\* virtual machine computes for two strings
IfString(op, v1, v2) == IF op = "==" THEN v1 = v2 ELSE v1 # v2

\* the type checker folds the binary expression
BinaryOpCall ==
    /\ cfold = <<>>
    /\ cfold' = <<BinaryOp(cop, c1, c2)>>
    /\ UNCHANGED <<cop, c1, c2>>
    /\ UNCHANGED exceptConst

InitConst ==
    /\ cop = "=="
    /\ c1 = ZeroConstant
    /\ c2 = ZeroConstant
    /\ cfold = <<>>

\* ------------------------------------------------------------------------
\* package vm: opRange, opRangeString, opContinue.  A range instruction calls
\* vm.run for each element; the run it calls has a pc of its own, declared
\* with `var pc uint32`, and its return value is the code of the loop.  Each
\* loop under way is a record: pc, the pc of the run that executes the range
\* instruction, and left, the elements after the current one.

MaxInt8 == 127

\* the operand a of opContinue
Codes == 0..(MaxLoops + 1)

Loop(p, n) == [pc |-> p, left |-> n - 1]

\* what a run does after its range loop got the code cont from the last run
\* it called: `if cont > 1 { return cont - 1 }`
AfterLoopKeepsCode(cont) == IF cont > 1 THEN <<cont>> ELSE <<>>
AfterLoop(cont) == IF cont > 1 THEN <<cont - 1>> ELSE <<>>

\* the innermost run returns code with the loops ls under way and its pc at
\* p: the loops, the pc and the status that follow, and the code itself
RECURSIVE Leave(_, _, _)
Leave(ls, code, p) ==
    IF ls = <<>>
    THEN \* Run drops the value of the outermost run
         [loops |-> <<>>, pc |-> p, status |-> "done"]
    ELSE LET top == ls[Len(ls)]
             rest == SubSeq(ls, 1, Len(ls) - 1)
         IN IF code > 0
            THEN \* break
                 IF AfterLoop(code) # <<>>
                 THEN Leave(rest, AfterLoop(code)[1], top.pc)
                 ELSE [loops |-> rest, pc |-> top.pc, status |-> "running"]
            ELSE IF top.left > 0
                 THEN \* the next element: vm.run()
                      [loops |-> Append(rest, [top EXCEPT !.left = @ - 1]),
                       pc |-> 0, status |-> "running"]
                 ELSE [loops |-> rest, pc |-> top.pc, status |-> "running"]

\* the step of the VM that ends the innermost run with code
Returns(op, code) ==
    LET r == Leave(loops, code, pc + 1) IN
    /\ Running
    /\ lastOp' = op
    /\ loops' = r.loops
    /\ pc' = r.pc
    /\ status' = r.status
    /\ lastCode' = <<code>>
    /\ ended' = Len(loops) - Len(r.loops)
    /\ depth0' = Len(calls)
    /\ expect' = <<>>
    /\ UNCHANGED <<fn, cvars, fp, st, calls, ok, cancelled, shadow, safepoints>>
    /\ UNCHANGED exceptRng

\* opRange and opRangeString over a value of n elements
OpRange(n) ==
    /\ Running
    /\ Len(loops) < MaxLoops
    /\ lastOp' = "range"
    /\ IF n = 0
       THEN pc' = pc + 1 /\ UNCHANGED loops
       ELSE pc' = 0 /\ loops' = Append(loops, Loop(pc + 1, n))
    /\ lastCode' = <<>>
    /\ ended' = 0
    /\ depth0' = Len(calls)
    /\ expect' = <<>>
    /\ UNCHANGED <<fn, cvars, fp, st, calls, ok, status, cancelled, shadow, safepoints>>
    /\ UNCHANGED exceptRng

\* opContinue: return int(a)
OpContinue(a) == Returns("continue", a)

\* opReturn with no call on vm.calls: return maxInt8
ReturnMaxInt8 == calls = <<>> /\ Returns("return", MaxInt8)

InitRange ==
    /\ loops = <<>>
    /\ lastCode = <<>>
    /\ ended = 0

\* ------------------------------------------------------------------------
\* The type checker: checkNodes on the statements of a function body.  The
\* body is any list of statements: each step draws the next node of the
\* node list under way, or ends the list.  An ancestor is a record: the node
\* (kind, and cond for a for with a condition), tc.hasBreak[node] (hb), the
\* locals of its case of checkNodes (term, ft, dflt, thenTerm), the scopes
\* entered when the node was reached (base), and what the node is by its
\* own statements: own, a break refers to it, and okc, each of its cases so
\* far ends in a terminating statement or in a fallthrough of its own.

Breakable == {"for", "range", "switch", "typeswitch"}

Ancestor(kind, cond) ==
    [kind |-> kind, cond |-> cond, hb |-> FALSE, term |-> TRUE, ft |-> FALSE,
     dflt |-> FALSE, thenTerm |-> FALSE, base |-> tdepth, own |-> FALSE,
     okc |-> TRUE]

\* tc.enterScope() and tc.exitScope(), n times
EnterScope(n) == tdepth + n
ExitScope(n) == tdepth - n

Top == anc[Len(anc)]
Rest == SubSeq(anc, 1, Len(anc) - 1)

\* the statement of the last ancestor is over
Done(a) == <<[kind |-> a.kind, cond |-> a.cond, hb |-> a.hb, own |-> a.own,
              dflt |-> a.dflt, okc |-> a.okc, base |-> a.base]>>

\* the loop of checkNodes reaches a node of the list under way
NextNode ==
    /\ sstatus = "checking"
    /\ lastKind \notin {"fallthrough", "ftcase"}
    /\ (anc # <<>> => Top.kind \notin {"switch", "typeswitch"})

\* a node list begins: the node is an ancestor, n scopes are entered and
\* checkNodes starts with tc.terminating = false
Enter(a, n) ==
    /\ Len(anc) < MaxAncestors
    /\ tdepth + n <= MaxEntered
    /\ anc' = Append(anc, a)
    /\ tdepth' = EnterScope(n)
    /\ tterm' = FALSE
    /\ lastKind' = "none"
    /\ done' = <<>>
    /\ UNCHANGED sstatus

\* a checking error
Fails ==
    /\ sstatus' = "error"
    /\ done' = <<>>
    /\ UNCHANGED <<anc, tterm, tdepth, lastKind>>

\* case *ast.Assignment, *ast.Var, *ast.Const, *ast.Continue in a loop
Simple ==
    /\ NextNode
    /\ tterm' = FALSE
    /\ lastKind' = "simple"
    /\ done' = <<>>
    /\ UNCHANGED <<anc, tdepth, sstatus>>
    /\ UNCHANGED exceptStm

\* case *ast.Return
CheckReturn ==
    /\ NextNode
    /\ tterm' = TRUE
    /\ lastKind' = "return"
    /\ done' = <<>>
    /\ UNCHANGED <<anc, tdepth, sstatus>>
    /\ UNCHANGED exceptStm

\* the innermost ancestor that a break refers to, 0 if none
InnermostBreakable ==
    LET bs == {i \in 1..Len(anc) : anc[i].kind \in Breakable}
    IN IF bs = {} THEN 0 ELSE CHOOSE i \in bs : \A j \in bs : j <= i

\* case *ast.Break: the break of the loop over tc.ancestors leaves the switch
\* on the type of the ancestor, so the loop goes on up to the first ancestor
MarkedByBreak(i) == anc[i].kind \in Breakable

CheckBreak ==
    /\ NextNode
    /\ IF InnermostBreakable = 0
       THEN Fails
       ELSE /\ anc' = [i \in 1..Len(anc) |->
                         [anc[i] EXCEPT !.hb = @ \/ MarkedByBreak(i),
                                        !.own = @ \/ i = InnermostBreakable]]
            /\ tterm' = FALSE
            /\ lastKind' = "break"
            /\ done' = <<>>
            /\ UNCHANGED <<tdepth, sstatus>>
    /\ UNCHANGED exceptStm

\* case *ast.Fallthrough: it has to be the last statement of a case of a
\* switch that is not the final case; tc.terminating is left as it is
CheckFallthrough(last, final) ==
    /\ NextNode
    /\ IF anc = <<>> \/ ~last
       THEN Fails
       ELSE IF Top.kind # "case" \/ final
       THEN Fails
       ELSE /\ lastKind' = "fallthrough"
            /\ done' = <<>>
            /\ UNCHANGED <<anc, tterm, tdepth, sstatus>>
    /\ UNCHANGED exceptStm

\* a node list other than the body of a case is exhausted
Ends(kinds) ==
    /\ sstatus = "checking"
    /\ anc # <<>>
    /\ Top.kind \in kinds
    /\ lastKind # "ftcase"
    /\ anc' = Rest
    /\ lastKind' = Top.kind
    /\ done' = Done(Top)
    /\ UNCHANGED sstatus

\* case *ast.Block
CheckBlock ==
    /\ NextNode
    /\ Enter(Ancestor("block", FALSE), 1)
    /\ UNCHANGED exceptStm

EndBlock ==
    /\ Ends({"block"})
    /\ tdepth' = ExitScope(1)
    /\ UNCHANGED tterm
    /\ UNCHANGED exceptStm

\* case *ast.If with a block as else or with no else: the scope of the if
\* and the scope of node.Then
CheckIf ==
    /\ NextNode
    /\ Enter(Ancestor("then", FALSE), 2)
    /\ UNCHANGED exceptStm

\* node.Then is checked: the else block follows, in a scope that takes the
\* place of the scope of node.Then, or the if is over
EndThen(else) ==
    /\ sstatus = "checking"
    /\ anc # <<>>
    /\ Top.kind = "then"
    /\ IF else
       THEN /\ anc' = Append(Rest, [Top EXCEPT !.kind = "else", !.thenTerm = tterm])
            /\ tterm' = FALSE
            /\ lastKind' = "none"
            /\ done' = <<>>
            /\ UNCHANGED tdepth
       ELSE /\ anc' = Rest
            /\ tdepth' = ExitScope(2)
            /\ tterm' = FALSE
            /\ lastKind' = "if"
            /\ done' = Done([Top EXCEPT !.kind = "if"])
    /\ UNCHANGED sstatus
    /\ UNCHANGED exceptStm

EndElse ==
    /\ sstatus = "checking"
    /\ anc # <<>>
    /\ Top.kind = "else"
    /\ anc' = Rest
    /\ tdepth' = ExitScope(2)
    /\ tterm' = (Top.thenTerm /\ tterm)
    /\ lastKind' = "if"
    /\ done' = Done([Top EXCEPT !.kind = "if"])
    /\ UNCHANGED sstatus
    /\ UNCHANGED exceptStm

\* case *ast.For: the scope of the for and the scope of node.Body
CheckFor(cond) ==
    /\ NextNode
    /\ Enter(Ancestor("for", cond), 2)
    /\ UNCHANGED exceptStm

EndFor ==
    /\ Ends({"for"})
    /\ tdepth' = ExitScope(2)
    /\ tterm' = (~Top.cond /\ ~Top.hb)
    /\ UNCHANGED exceptStm

\* case *ast.ForRange
CheckForRange ==
    /\ NextNode
    /\ Enter(Ancestor("range", FALSE), 2)
    /\ UNCHANGED exceptStm

EndForRange ==
    /\ Ends({"range"})
    /\ tdepth' = ExitScope(2)
    /\ tterm' = ~Top.hb
    /\ UNCHANGED exceptStm

\* case *ast.Switch and case *ast.TypeSwitch, up to the loop over the cases
CheckSwitch(kind) ==
    /\ NextNode
    /\ Enter(Ancestor(kind, FALSE), 1)
    /\ UNCHANGED exceptStm

\* the loop over node.Cases reaches a case: a second default is an error;
\* a case of a switch enters one scope, a case of a type switch two
CheckCase(isDefault) ==
    /\ sstatus = "checking"
    /\ anc # <<>>
    /\ Top.kind \in {"switch", "typeswitch"}
    /\ IF isDefault /\ Top.dflt
       THEN Fails
       ELSE /\ Len(anc) < MaxAncestors
            /\ tdepth + 2 <= MaxEntered
            /\ anc' = Append(Append(Rest, [Top EXCEPT !.dflt = @ \/ isDefault]),
                             Ancestor(IF Top.kind = "switch" THEN "case" ELSE "typecase",
                                      FALSE))
            /\ tdepth' = EnterScope(IF Top.kind = "switch" THEN 1 ELSE 2)
            /\ tterm' = FALSE
            /\ lastKind' = "none"
            /\ done' = <<>>
            /\ UNCHANGED sstatus
    /\ UNCHANGED exceptStm

\* hasFallthrough after the body of a case: once set it stays set
HasFallthrough(sw) == sw.ft \/ lastKind = "fallthrough"

\* the body of a case of a switch is checked
EndCaseOfSwitch ==
    /\ sstatus = "checking"
    /\ Len(anc) >= 2
    /\ Top.kind = "case"
    /\ LET sw == anc[Len(anc) - 1]
           ft2 == HasFallthrough(sw)
       IN anc' = Append(SubSeq(anc, 1, Len(anc) - 2),
                        [sw EXCEPT !.ft = ft2,
                                   !.term = @ /\ (tterm \/ ft2),
                                   !.okc = @ /\ (\/ lastKind = "fallthrough"
                                                 \/ lastKind # "none" /\ tterm)])
    /\ tdepth' = ExitScope(1)
    /\ lastKind' = IF lastKind = "fallthrough" THEN "ftcase" ELSE "case"
    /\ done' = Done(Top)
    /\ UNCHANGED <<tterm, sstatus>>
    /\ UNCHANGED exceptStm

\* the body of a case of a type switch is checked
EndCaseOfTypeSwitch ==
    /\ sstatus = "checking"
    /\ Len(anc) >= 2
    /\ Top.kind = "typecase"
    /\ LET sw == anc[Len(anc) - 1]
       IN anc' = Append(SubSeq(anc, 1, Len(anc) - 2),
                        [sw EXCEPT !.term = @ /\ tterm,
                                   !.okc = @ /\ lastKind # "none" /\ tterm])
    /\ tdepth' = ExitScope(1)
    /\ lastKind' = "case"
    /\ done' = Done(Top)
    /\ UNCHANGED <<tterm, sstatus>>
    /\ UNCHANGED exceptStm

\* the loop over node.Cases is over
EndSwitchOrTypeSwitch ==
    /\ Ends({"switch", "typeswitch"})
    /\ tdepth' = ExitScope(1)
    /\ tterm' = (Top.term /\ ~Top.hb /\ Top.dflt)
    /\ UNCHANGED exceptStm

\* the node list of the function body is exhausted
EndBody ==
    /\ sstatus = "checking"
    /\ anc = <<>>
    /\ sstatus' = "done"
    /\ done' = <<>>
    /\ UNCHANGED <<anc, tterm, tdepth, lastKind>>
    /\ UNCHANGED exceptStm

InitStatements ==
    /\ anc = <<>>
    /\ tterm = FALSE
    /\ tdepth = 0
    /\ lastKind = "none"
    /\ sstatus = "checking"
    /\ done = <<>>

(***************************************************************************)
(* The lexer: the context of the code tokens.  The source is a sequence of *)
(* items: a text, a code region {{ ... }}, the tags <script ...>,          *)
(* </script>, <style ...>, </style>, and the delimiters of a CDATA section *)
(* and of an HTML comment.                                                 *)
(***************************************************************************)
Items == {"text", "code", "script", "endscript", "style", "endstyle",
          "cdata", "cdataend", "comment", "commentend"}

TopContexts == {"Text", "HTML", "CSS", "JavaScript"}

\* the mutant of AfterTag: the end tags leave the context as it is
AfterTagKeepsContext(ctx, item) ==
    CASE ctx = "HTML" /\ item = "script" -> "JavaScript"
      [] ctx = "HTML" /\ item = "style" -> "CSS"
      [] OTHER -> ctx

\* the context after a tag: <script> and <style> are tags of HTML, and the
\* JavaScript and the CSS they open end at their own end tag
AfterTag(ctx, item) ==
    CASE ctx = "HTML" /\ item = "script" -> "JavaScript"
      [] ctx = "HTML" /\ item = "style" -> "CSS"
      [] ctx = "JavaScript" /\ item = "endscript" -> "HTML"
      [] ctx = "CSS" /\ item = "endstyle" -> "HTML"
      [] OTHER -> ctx

\* the section after an item: CDATA sections and comments begin in HTML
AfterSection(ctx, sub, item) ==
    CASE sub = "cdata" /\ item = "cdataend" -> "none"
      [] sub = "comment" /\ item = "commentend" -> "none"
      [] sub = "none" /\ ctx = "HTML" /\ item = "cdata" -> "cdata"
      [] sub = "none" /\ ctx = "HTML" /\ item = "comment" -> "comment"
      [] OTHER -> sub

\* a code region is a token unless it is inside a CDATA section
Emits(sub, item) == item = "code" /\ sub # "cdata"

\* the lexer scans the next item of the source
Scan(item) ==
    /\ Len(lsrc) < MaxSrc
    /\ lsrc' = Append(lsrc, item)
    /\ ltoks' = IF Emits(lsub, item)
                THEN Append(ltoks, [at |-> Len(lsrc) + 1, ctx |-> lctx])
                ELSE ltoks
    /\ lctx' = IF ltop = "HTML" /\ lsub = "none" THEN AfterTag(lctx, item) ELSE lctx
    /\ lsub' = IF ltop = "HTML" THEN AfterSection(lctx, lsub, item) ELSE lsub
    /\ UNCHANGED ltop
    /\ UNCHANGED exceptLex

\* newLexer(src, ctx) with a context of tops
NewLexer(tops) ==
    /\ ltop \in tops
    /\ lctx = ltop
    /\ lsub = "none"
    /\ lsrc = <<>>
    /\ ltoks = <<>>

InitSections ==
    InitChecker /\ InitExtends /\ InitPaths /\ InitConst /\ InitRange /\ InitStatements

InitAux == InitSections /\ NewLexer({"HTML"})

Init == InitVM /\ InitRegs /\ InitRuns /\ InitRender /\ InitAux

DoCall == \E callee \in Callees, off \in Shifts : Call(callee, off)
DoTailCall == \E callee \in Callees : TailCall(callee)
DoGoto == \E addr \in 0..(BodyLen - 1) : Goto(addr)

NextVM ==
    \/ FetchFault
    \/ DoCall
    \/ Return
    \/ TailCallCurrent
    \/ DoTailCall
    \/ DoGoto
    \/ RegisterInstr

SpecVM == Init /\ [][NextVM]_vars

\* the same run with a host that may cancel the context at any moment
NextCancel ==
    \/ FetchFault
    \/ DoCall
    \/ Return
    \/ TailCallCurrent
    \/ DoTailCall
    \/ DoGoto
    \/ RegisterInstr
    \/ Cancel

SpecCancel == Init /\ [][NextCancel]_vars

DoGetVar == \E c \in GeneralRegs, v \in HostValues : GetVar(c, v)
DoMoveString == \E c \in StringRegs, k \in Keys : MoveString(c, k)
DoAssert ==
    \E a \in GeneralRegs, t \in Types,
       c \in IntRegs \cup FloatRegs \cup StringRegs \cup GeneralRegs : OpAssert(a, t, c)
DoAssertInt == \E a \in GeneralRegs, c \in IntRegs : OpAssertInt(a, c)
DoAssertFloat64 == \E a \in GeneralRegs, c \in FloatRegs : OpAssertFloat64(a, c)
DoAssertString == \E a \in GeneralRegs, c \in StringRegs : OpAssertString(a, c)
DoMapIndex ==
    \E a \in GeneralRegs, key \in KeyOperands,
       c \in IntRegs \cup FloatRegs \cup StringRegs \cup GeneralRegs : MapIndex(a, key, c)
DoMapIndexStringInt ==
    \E a \in GeneralRegs, key \in KeyOperands, c \in IntRegs : MapIndexStringInt(a, key, c)
DoMapIndexStringBool ==
    \E a \in GeneralRegs, key \in KeyOperands, c \in IntRegs : MapIndexStringBool(a, key, c)
DoMapIndexStringString ==
    \E a \in GeneralRegs, key \in KeyOperands, c \in StringRegs : MapIndexStringString(a, key, c)
DoMapIndexStringInterface ==
    \E a \in GeneralRegs, key \in KeyOperands, c \in GeneralRegs :
        MapIndexStringInterface(a, key, c)
DoIf == \E a \in GeneralRegs, b \in NilConditions : OpIf(a, b)
DoIfInt ==
    \E a \in IntRegs, b \in IntConditions, c \in IntRegs, k \in BOOLEAN :
        OpIfInt(a, b, c, k)
DoJmpOk == \E addr \in 0..(BodyLen - 1) : JmpOk(addr)
DoJmpNotOk == \E addr \in 0..(BodyLen - 1) : JmpNotOk(addr)

\* a run of the instructions on registers
NextRegs ==
    \/ FetchFault
    \/ DoGetVar
    \/ DoMoveString
    \/ DoAssert
    \/ DoAssertInt
    \/ DoAssertFloat64
    \/ DoAssertString
    \/ DoMapIndex
    \/ DoMapIndexStringInt
    \/ DoMapIndexStringBool
    \/ DoMapIndexStringString
    \/ DoMapIndexStringInterface
    \/ DoJmpOk
    \/ DoJmpNotOk

SpecRegs == Init /\ [][NextRegs]_vars

\* the registers a function finds when it reaches its branches: any integers
\* and any general values
InitIf ==
    /\ InitVM /\ InitRuns /\ InitRender /\ InitAux
    /\ regI \in [IntRegs -> {-1, 0, 1}]
    /\ regF = [r \in FloatRegs |-> 0]
    /\ regS = [r \in StringRegs |-> ""]
    /\ regG \in [GeneralRegs -> {NilVal, Val("int", 1, "", EmptyMap)}]
    /\ present = FALSE
    /\ matched = FALSE
    /\ dest = <<>>

\* a run of the conditional branches
NextIf ==
    \/ FetchFault
    \/ DoIf
    \/ DoIfInt

SpecIf == InitIf /\ [][NextIf]_vars

\* the int16 values a function finds in its integer registers
Int16Values == {-32768, -1, 0, 1, 32767}

\* the operand b of an arithmetic instruction: an integer register, or with
\* the k flag a constant
Operands == {<<b, FALSE>> : b \in IntRegs} \cup {<<-1, TRUE>>, <<1, TRUE>>}

InitArith ==
    /\ InitVM /\ InitRuns /\ InitRender /\ InitAux
    /\ regI \in [IntRegs -> Int16Values]
    /\ regF = [r \in FloatRegs |-> 0]
    /\ regS = [r \in StringRegs |-> ""]
    /\ regG = [r \in GeneralRegs |-> NilVal]
    /\ present = FALSE
    /\ matched = FALSE
    /\ dest = <<>>

DoAddInt16 == \E a \in IntRegs, o \in Operands, c \in IntRegs : OpAddInt16(a, o[1], c, o[2])
DoSubInt16 == \E a \in IntRegs, o \in Operands, c \in IntRegs : OpSubInt16(a, o[1], c, o[2])
DoSubInvInt16 ==
    \E a \in IntRegs, o \in Operands, c \in IntRegs : OpSubInvInt16(a, o[1], c, o[2])
DoMulInt16 == \E a \in IntRegs, o \in Operands, c \in IntRegs : OpMulInt16(a, o[1], c, o[2])

\* a run of the arithmetic instructions on int16
NextArith ==
    \/ FetchFault
    \/ DoAddInt16
    \/ DoSubInt16
    \/ DoSubInvInt16
    \/ DoMulInt16

SpecArith == InitArith /\ [][NextArith]_vars

\* two concurrent runs of one template
DoNewVMStep == \E p \in Runs, init \in Initializers : NewVMStep(p, init)
DoInitGlobalVariablesStep ==
    \E p \in Runs, init \in Initializers : InitGlobalVariablesStep(p, init)
DoBuild == \E a \in {"Render", "Run"} : \E t \in Templates(a) : Build(a, t)
DoRenderSet == \E p \in Runs : RenderSet(p)
DoRunCall == \E p \in Runs : RunCall(p)
DoSetGlobal ==
    \E p \in Runs, i \in 1..NumGlobals(api), v \in 1..MaxVal : SetGlobal(p, i, v)
DoReadGlobal == \E p \in Runs, i \in 1..NumGlobals(api) : ReadGlobal(p, i)
DoFinish == \E p \in Runs : Finish(p)

NextRuns ==
    \/ DoBuild
    \/ DoRenderSet
    \/ DoNewVMStep
    \/ DoRunCall
    \/ DoInitGlobalVariablesStep
    \/ DoSetGlobal
    \/ DoReadGlobal
    \/ DoFinish

SpecRuns == Init /\ [][NextRuns]_vars

\* the rendering of a tree
\* The inputs that cannot change the step are fixed: the text out of a URL,
\* the position of a node errorf is not called for, the branch not taken.  The
\* bytes a cut drops are spaces, here "a".
DoRenderText ==
    IF urlstate = <<>>
    THEN RenderText(<<"a">>, 0, 0)
    ELSE \E text \in Texts, l \in 0..1, r \in 0..1 :
            /\ l + r <= Len(text)
            /\ (l = 1 => text[1] = "a")
            /\ (r = 1 => text[Len(text)] = "a")
            /\ RenderText(text, l, r)
DoBeginURL == \E attribute \in {"href", "srcset"} : BeginURL(attribute)
DoRenderValue ==
    \E evalFails \in BOOLEAN, hasQuery \in BOOLEAN, amp \in BOOLEAN :
        /\ (evalFails \/ urlstate = <<>> => ~hasQuery)
        /\ (~hasQuery => ~amp)
        /\ RenderValue(evalFails, hasQuery, amp)
DoRenderIf ==
    \E assignment \in {"none", "ok", "fails"},
       condition \in {"true", "false", "fails", "non-bool"},
       hasPos \in BOOLEAN, thenEmpty \in BOOLEAN, else \in {"nil", "block"} :
        /\ (assignment = "fails" => condition = "false")
        /\ (assignment = "fails" \/ condition # "non-bool" => hasPos)
        /\ (assignment # "fails" /\ condition = "true" => else = "nil")
        /\ (assignment = "fails" \/ condition # "true" => thenEmpty)
        /\ RenderIf(assignment, condition, hasPos, thenEmpty, else)
DoRenderTypeSwitch ==
    \E init \in {"none", "ok", "fails"}, blank \in BOOLEAN, guardFails \in BOOLEAN,
       scan \in {"case", "default", "none", "fails", "not a type"},
       dflt \in BOOLEAN, hasPos \in BOOLEAN :
        /\ (scan \in {"case", "default", "none"} => hasPos)
        /\ (blank /\ guardFails => scan = "none")
        /\ RenderTypeSwitch(init, blank, guardFails, scan, dflt, hasPos)
DoRenderAssignment ==
    \E fails \in BOOLEAN : RenderAssignment(fails)
DoRenderSwitch ==
    \E init \in {"none", "fails"}, cond \in {"ok", "fails"},
       fails \in {"no"} \cup EvalBinaryFailure, scan \in {"case", "none"},
       dflt \in BOOLEAN, ft \in BOOLEAN :
        /\ (init = "fails" \/ cond = "fails" => fails = "no" /\ scan = "none" /\ ~dflt)
        /\ (fails = "nil" => scan = "none" /\ ~dflt)
        /\ RenderSwitch(init, cond, fails, scan, dflt, ft)
DoEndSwitchCase ==
    \E next \in {"none", "case", "default"}, ft \in BOOLEAN : EndSwitchCase(next, ft)

NextRender ==
    \/ DoRenderText
    \/ DoBeginURL
    \/ EndURL
    \/ DoRenderValue
    \/ DoRenderIf
    \/ EndIf
    \/ DoRenderTypeSwitch
    \/ EndCase
    \/ RenderBreak
    \/ DoRenderAssignment
    \/ DoRenderSwitch
    \/ DoEndSwitchCase
    \/ EndSwitch
    \/ EndTree

SpecRender == Init /\ [][NextRender]_vars

\* TestErrors: Execute with a handler that answers true for every error
InitExecute == InitVM /\ InitRegs /\ InitRuns /\ InitRendering("always") /\ InitAux

SpecExecute == InitExecute /\ [][NextRender]_vars

\* a call of render has returned nil to the statement that made it, or a
\* break has been taken by the switch around it, and the statement is over
StatementOver ==
    /\ rstatus = "rendering" /\ rstatus' = "rendering"
    /\ Len(rframes') < Len(rframes)

\* a statement that calls render for none of its bodies has been rendered
NoBodyRendered ==
    /\ rstatus = "rendering" /\ rstatus' = "rendering"
    /\ rnodes' = rnodes + 1
    /\ lastNode' \in {"if", "switch", "typeswitch"}
    /\ rframes' = rframes

\* C24: a statement that completes without returning an error leaves r.vars
\* with the length it had when the statement was reached.
C24_StatementKeepsScopeDepth ==
    [][/\ StatementOver => rscopes' = rframes[Len(rframes') + 1].base
       /\ NoBodyRendered => rscopes' = rscopes]_vars

\* the body of the default case is taken as the default case of the switch
DefaultTaken ==
    /\ rstatus' = "rendering"
    /\ rframes' # rframes
    /\ rframes' # <<>>
    /\ rframes'[Len(rframes')].kind = "swdefault"

\* C26: the default case of a switch is rendered if and only if no case
\* matched: the switch turns to its default case right after the loop over
\* the cases found no match, and never after the body of a case, whether
\* the body ended normally, with a fallthrough or with a break.
C26_DefaultOnlyIfNoCaseMatched ==
    [][/\ \A init \in {"none", "ok", "fails"}, cond \in {"ok", "fails"},
             fails \in {"no"} \cup EvalBinaryFailure, scan \in {"case", "none"},
             dflt \in BOOLEAN, ft \in BOOLEAN :
             (RenderSwitch(init, cond, fails, scan, dflt, ft)
                 /\ rstatus' = "rendering") =>
                 (DefaultTaken <=> (scan = "none" /\ dflt))
       /\ DefaultTaken => lastNode' = "switch"]_vars

DoCheckFallthrough == \E last \in BOOLEAN, final \in BOOLEAN : CheckFallthrough(last, final)
DoEndThen == \E else \in BOOLEAN : EndThen(else)
DoCheckFor == \E cond \in BOOLEAN : CheckFor(cond)
DoCheckSwitch == \E kind \in {"switch", "typeswitch"} : CheckSwitch(kind)
DoCheckCase == \E isDefault \in BOOLEAN : CheckCase(isDefault)

\* the check of a function body
NextStatements ==
    \/ Simple
    \/ CheckReturn
    \/ CheckBreak
    \/ DoCheckFallthrough
    \/ CheckBlock
    \/ EndBlock
    \/ CheckIf
    \/ DoEndThen
    \/ EndElse
    \/ DoCheckFor
    \/ EndFor
    \/ CheckForRange
    \/ EndForRange
    \/ DoCheckSwitch
    \/ DoCheckCase
    \/ EndCaseOfSwitch
    \/ EndCaseOfTypeSwitch
    \/ EndSwitchOrTypeSwitch
    \/ EndBody

SpecStatements == Init /\ [][NextStatements]_vars

\* C23: hasBreak is set for a statement only by a break that refers to it,
\* the innermost for, range, switch or type switch around the break: a for
\* without condition, or a range, that no break refers to is terminating.
C23_BreakMarksInnermostOnly ==
    /\ \A i \in 1..Len(anc) : anc[i].hb => anc[i].own
    /\ (sstatus = "checking" /\ done # <<>>) =>
           /\ done[1].hb => done[1].own
           /\ (done[1].kind \in {"for", "range"} /\ ~done[1].cond /\ ~done[1].own)
                  => tterm

\* C25: a statement that is checked without a checking error leaves as many
\* scopes entered as there were when it was reached.
C25_StatementKeepsScopes ==
    (sstatus = "checking" /\ done # <<>>) => tdepth = done[1].base

\* C27: a switch is terminating only if it has a default case, no break
\* refers to it and each of its cases ends in a terminating statement or in
\* a fallthrough of its own.
C27_SwitchTerminating ==
    (sstatus = "checking" /\ done # <<>> /\ done[1].kind = "switch" /\ tterm) =>
        /\ done[1].dflt
        /\ ~done[1].own
        /\ done[1].okc

(***************************************************************************)
(* Properties of the lexer.                                                *)
(***************************************************************************)
InitLexer == InitVM /\ InitRegs /\ InitRuns /\ InitRender /\ InitSections /\ NewLexer(TopContexts)

DoScan == \E item \in Items : Scan(item)

NextLexer == DoScan

SpecLexer == InitLexer /\ [][NextLexer]_vars

\* the index of the first item of kind after index k of src, or one more
\* than the length of src
FirstAfter(src, k, kind) ==
    IF \E m \in (k + 1)..Len(src) : src[m] = kind
    THEN CHOOSE m \in (k + 1)..Len(src) :
             src[m] = kind /\ \A n \in (k + 1)..(m - 1) : src[n] # kind
    ELSE Len(src) + 1

Opens == [script |-> [till |-> "endscript", ctx |-> "JavaScript"],
          style |-> [till |-> "endstyle", ctx |-> "CSS"],
          cdata |-> [till |-> "cdataend", ctx |-> "HTML"],
          comment |-> [till |-> "commentend", ctx |-> "HTML"]]

\* the context of item i of an HTML source whose item k is in HTML: the
\* region a tag or a section opens at k goes up to its matching end
RECURSIVE ContextAt(_, _, _)
ContextAt(src, k, i) ==
    IF k >= i THEN "HTML"
    ELSE IF src[k] \in DOMAIN Opens
         THEN LET end == FirstAfter(src, k, Opens[src[k]].till)
              IN  IF i <= end THEN Opens[src[k]].ctx
                  ELSE ContextAt(src, end + 1, i)
         ELSE ContextAt(src, k + 1, i)

\* C21: with top-level context HTML a code token between <script ...> and
\* the matching </script> has context JavaScript, one between <style ...>
\* and </style> has context CSS, one after the end tag has context HTML
\* again and a tag inside a CDATA section changes nothing; with another
\* top-level context every code token has the top-level context.
C21_CodeTokenContexts ==
    \A t \in 1..Len(ltoks) :
        ltoks[t].ctx = IF ltop = "HTML" THEN ContextAt(lsrc, 1, ltoks[t].at)
                       ELSE ltop

\* a code token in a script and a code token after the end tag of the script
C21_Witness ==
    /\ ltop = "HTML"
    /\ \E t, u \in 1..Len(ltoks) :
           /\ t < u
           /\ ltoks[t].ctx = "JavaScript"
           /\ ltoks[u].ctx = "HTML"
           /\ \E m \in (ltoks[t].at + 1)..(ltoks[u].at - 1) : lsrc[m] = "endscript"

(***************************************************************************)
(* Properties of the map lookups and of the type assertions.               *)
(***************************************************************************)
MapOps == {"mapindex", "mapindexStringInt", "mapindexStringBool",
           "mapindexStringString", "mapindexStringInterface"}

AssertOps == {"assert", "assertInt", "assertFloat64", "assertString"}

\* the destination register of the last assertion holds the zero value
DestIsZero ==
    CASE dest[1] = "int" -> regI[dest[2]] = 0
      [] dest[1] = "float" -> regF[dest[2]] = 0
      [] dest[1] = "string" -> regS[dest[2]] = ""
      [] OTHER -> regG[dest[2]] = NilVal

\* C3: every map lookup sets vm.ok to whether the key is in the map.
C3_MapIndexSetsOk ==
    (lastOp \in MapOps /\ status = "running") => ok = present

\* C4: a type assertion never aborts the run; it sets vm.ok to whether the
\* operand has the asserted type and stores the zero value when it has not.
C4_AssertNeverAborts ==
    lastOp \in AssertOps =>
        /\ status = "running"
        /\ ok = matched
        /\ (~matched => DestIsZero)

\* C29: the if on a general register skips the next instruction exactly
\* when its condition (nil, not nil) holds of the operand, as the if on
\* integers skips it exactly when its comparison holds.
C29_IfSkipsWhenConditionHolds ==
    [][/\ \A a \in GeneralRegs, b \in NilConditions :
            OpIf(a, b) =>
                pc' = IF NilCondition(b, regG[a]) THEN pc + 2 ELSE pc + 1
       /\ \A a \in IntRegs, b \in IntConditions, c \in IntRegs, k \in BOOLEAN :
            OpIfInt(a, b, c, k) =>
                pc' = IF IntCondition(b, regI[a], Intk(c, k))
                      THEN pc + 2 ELSE pc + 1]_vars

\* C30: add, sub, sub-inv and mul on int16 store a result in the range of
\* int16, whatever the operands are.
C30_Int16ResultInRange ==
    [][\A a \in IntRegs, o \in Operands, c \in IntRegs :
          (\/ OpAddInt16(a, o[1], c, o[2])
           \/ OpSubInt16(a, o[1], c, o[2])
           \/ OpSubInvInt16(a, o[1], c, o[2])
           \/ OpMulInt16(a, o[1], c, o[2])) =>
              regI'[c] \in -32768..32767]_vars

DoRange == \E n \in 0..MaxElems : OpRange(n)
DoContinue == \E a \in Codes : OpContinue(a)

\* a run of a function with range loops and no calls
NextRange ==
    \/ FetchFault
    \/ RegisterInstr
    \/ DoGoto
    \/ DoRange
    \/ DoContinue
    \/ ReturnMaxInt8

SpecRange == Init /\ [][NextRange]_vars

\* C28: a range loop calls a run for each element as long as the runs return
\* 0; the code 1 ends only the innermost loop, a code k > 1 ends exactly k
\* nested loops, and the run that executed the range instruction of the
\* outermost loop ended goes on at the instruction after it.
C28_ContinueCodeEndsLoops ==
    [][\A a \in Codes :
          LET d == Len(loops) IN
          (OpContinue(a) /\ d > 0) =>
              IF a = 0
              THEN IF loops[d].left > 0
                   THEN /\ Len(loops') = d
                        /\ loops'[d].left = loops[d].left - 1
                        /\ SubSeq(loops', 1, d - 1) = SubSeq(loops, 1, d - 1)
                        /\ pc' = 0
                   ELSE /\ loops' = SubSeq(loops, 1, d - 1)
                        /\ pc' = loops[d].pc
              ELSE a <= d =>
                   /\ loops' = SubSeq(loops, 1, d - a)
                   /\ pc' = loops[d - a + 1].pc
                   /\ status' = "running"]_vars

\* a continue with code 2 inside two nested loops has ended both
C28_Witness ==
    /\ lastOp = "continue" /\ lastCode = <<2>>
    /\ ended = 2 /\ status = "running"

(***************************************************************************)
(* Properties of call, tail-call and return.                               *)
(***************************************************************************)
NonTail(cs) == Cardinality({i \in 1..Len(cs) : ~cs[i].tail})

\* C1: after a call and the matching return of the callee (tail calls of the
\* callee included) the function, the closure variables and the four frame
\* pointers are those before the call, pc is at the instruction after the
\* register-shift word and the call stack has the depth before the call.
C1_ReturnRestoresCaller ==
    (lastOp = "return" /\ status = "running") =>
        /\ Len(expect) = 1
        /\ fn = expect[1].fn
        /\ cvars = expect[1].cvars
        /\ fp = expect[1].fp
        /\ pc = expect[1].pc
        /\ Len(calls) = expect[1].depth

\* a return that removed the record of a call and a tail record above it
C1_Witness ==
    /\ lastOp = "return" /\ status = "running"
    /\ depth0 - Len(calls) >= 2

\* C2 as claimed: the call stack has the same length after a tail-call as
\* before it.
C2_TailCallKeepsDepth ==
    (lastOp = "tailcall" /\ status = "running") => Len(calls) = depth0

\* C2 amended: a tail-call pushes exactly one record, marked tail, and no
\* return record: the records that are not tail records are those of the
\* calls that have not returned.
C2_TailCallPushesTailRecord ==
    (lastOp = "tailcall" /\ status = "running") =>
        /\ Len(calls) = depth0 + 1
        /\ calls[Len(calls)].tail
        /\ NonTail(calls) = Len(shadow)

\* two consecutive tail calls
C2_Witness ==
    /\ lastOp = "tailcall" /\ status = "running"
    /\ depth0 >= 1
    /\ calls[depth0].tail

\* C9: after the cancellation at most one safepoint (back-branch, call,
\* tail-call) executes.
C9_AtMostOneSafepointAfterCancel ==
    cancelled => safepoints <= 1

\* C22: a call that goes on to the callee adds to the frame pointer of each
\* of the four banks (integer, float, string, general) the shift of that
\* bank in the register-shift word that follows the call.
C22_CallShiftsEveryBank ==
    [][\A callee \in Callees, off \in Shifts :
          (Call(callee, off) /\ status' = "running") =>
              fp' = << fp[1] + off.op, fp[2] + off.a,
                       fp[3] + off.b, fp[4] + off.c >>]_vars

(***************************************************************************)
(* Properties of the concurrent runs of a template.                        *)
(***************************************************************************)
TemplateFields == {Field(i) : i \in 1..4}

\* C5: a run writes no field of the Template and no location that another
\* run of the same template reads or writes.
C5_NoSharedMutableState ==
    \A p \in Runs :
        /\ written[p] \cap TemplateFields = {}
        /\ \A q \in Runs \ {p} : written[p] \cap accessed[q] = {}

InPath(u) == u.path /\ ~u.query

InQuery(u) == u.query /\ ~u.path

\* C7: in a srcset attribute a text with a comma leaves the URL writer in
\* path state, whatever its state before the text.
C7_CommaSwitchesToPath ==
    (lastNode = "text" /\ urlstate # <<>> /\ Contains(lastText, ","))
        => (urlstate[1].isSet => InPath(urlstate[1]))

\* C8: an attribute starts in path state, a text with "?" or "#" written in
\* path state leaves the writer in query state, and out of srcset the writer
\* never goes from query state back to path state within the attribute.
C8_PathThenQuery ==
    /\ lastNode = "url" => (urlstate # <<>> /\ InPath(urlstate[1]))
    /\ (lastNode = "text" /\ prevUrl # <<>> /\ ContainsAny(lastText, {"?", "#"}))
          => (InPath(prevUrl[1]) => InQuery(urlstate[1]))
    /\ (prevUrl # <<>> /\ urlstate # <<>>)
          => ((~urlstate[1].isSet /\ InQuery(prevUrl[1])) => InQuery(urlstate[1]))

\* C10: render returns after the end of the tree; it returns nil when no
\* error occurred and otherwise the RenderErrors with every error that
\* occurred, in order.
C10_RenderReturnsAllErrors ==
    rstatus = "returned" =>
        /\ rresult.kind # "error"
        /\ (occurred = <<>> <=> rresult.kind = "nil")
        /\ (occurred # <<>> => (rresult.kind = "RenderErrors" /\ rresult.errs = occurred))

\* C11: with a handler that answers true for every error, a rendering in
\* which statements or expressions fail calls the handler, goes on to the
\* end of the tree and returns nil.
C11_HandledErrorsDoNotStopRendering ==
    (rhandler = "always" /\ rstatus = "returned" /\ occurred # <<>>
        /\ \A i \in 1..Len(occurred) : occurred[i].typed)
        => (rresult.kind = "nil" /\ errs = occurred)

NextChecker ==
    \/ \E mod \in {"program", "script", "template"} : NewTypechecker(mod)
    \/ AddScope
    \/ \E name \in Names : DeclareVar(name)
    \/ \E name \in Names : Use(name)
    \/ RemoveCurrentScope
    \/ \E synthetic \in BOOLEAN : FailNode(synthetic)
    \/ CheckNodesReturn

SpecChecker == Init /\ [][NextChecker]_vars

\* C13: every error the type checker surfaces is a checking error with the
\* path and the position of the offending node, also when the node is a
\* synthetic node with a nil position.
C13_ErrorsCarryPathAndPosition ==
    tcerr # <<>> =>
        /\ tcstatus = "returned"
        /\ tcerr[1].checking
        /\ tcerr[1].path = Path
        /\ tcerr[1].pos # <<>>

\* the open scopes that declare name
Declaring(name) == {i \in 1..Len(tcscopes) : tcscopes[i][name] # NoDecl}

\* C14: a lookup resolves to the declaration of the innermost open scope
\* that declares the name, then to the file/package block, then to the
\* universe; it never returns a declaration of a removed scope, and the
\* universe is never modified.
C14_LookupResolvesInnermost ==
    /\ tcuniverse = Universe
    /\ lastLookup # <<>> =>
        LET r == lastLookup[1]
            open == Declaring(r.name)
        IN /\ open # {} =>
                \E i \in open : /\ \A j \in open : j <= i
                                /\ r = Found(r.name, tcscopes[i][r.name])
           /\ (open = {} /\ tcblock[r.name] # NoDecl) => r = Found(r.name, tcblock[r.name])
           /\ (open = {} /\ tcblock[r.name] = NoDecl /\ tcuniverse[r.name] # NoDecl)
                => r = Found(r.name, tcuniverse[r.name])
           /\ (open = {} /\ tcblock[r.name] = NoDecl /\ tcuniverse[r.name] = NoDecl)
                => r = NotFound(r.name)
           /\ (r.found /\ r.decl[1].block = "scope") => r.decl[1].id \notin popped

\* a name that two open scopes declare has been looked up
C14_Witness ==
    /\ lastLookup # <<>>
    /\ Cardinality(Declaring(lastLookup[1].name)) = 2

\* C17: removing a scope with a variable that is declared and never used
\* is an error in a program and in a script, and is accepted in a template.
C17_UnusedVariableFailsUnlessTemplate ==
    (lastRemoved # <<>> /\ lastRemoved[1].unused)
        => (tcerr # <<>> <=> tcmod \in {"program", "script"})

SpecExtends == Init /\ [][NextExtends]_vars

\* C15: in a file that extends another one, every macro is declared before
\* a node of the extended file is checked, and no body of a macro is
\* checked before the check of the extended file is over.
C15_MacrosDeclaredBeforeExtendedFile ==
    xextends > 0 =>
        /\ (xext > 0 => Macros(xtree) \subseteq xscope)
        /\ (xbodies # {} => (xext = MaxExt /\ xphase \in {"package", "done"}))

\* the extended file is checked, and then the body of a macro
C15_Witness ==
    /\ xextends > 0
    /\ xext = MaxExt
    /\ xbodies # {}

\* C16: a file is treated as a file that extends only when every node
\* before its extends statement is a comment or a text of white space.
C16_ExtendsOnlyAsFirstContent ==
    xextends > 0 => \A i \in 1..(xextends - 1) : xtree[i] \in {"comment", "blank"}

\* IsPath is called with any path
InitIsPath ==
    /\ InitVM /\ InitRegs /\ InitRuns /\ InitRender /\ InitChecker /\ InitExtends
    /\ InitConst /\ InitRange /\ InitStatements /\ NewLexer({"HTML"})
    /\ ppath \in Paths
    /\ pvalid = <<>>
    /\ adir = <<"/">> /\ arel = <<>> /\ aresult = <<>>

SpecIsPath == InitIsPath /\ [][IsPathCall]_vars

\* the name of the file: what follows the last "/"
LastName(path) == SubSeq(path, LastIndexByte(path, "/") + 1, Len(path))

\* C18: a path is valid only if its last name has from 3 to 255
\* characters, has an extension and neither starts nor ends with a dot.
C18_ValidPathHasExtension ==
    pvalid = <<TRUE>> =>
        LET name == LastName(ppath)
        IN /\ Len(name) >= 3 /\ Len(name) <= 255
           /\ \E i \in 2..(Len(name) - 1) : name[i] = "."
           /\ name[1] # "." /\ name[Len(name)] # "."

\* toAbsolutePath is called with a directory and a relative path
InitAbsolutePath ==
    /\ InitVM /\ InitRegs /\ InitRuns /\ InitRender /\ InitChecker /\ InitExtends
    /\ InitConst /\ InitRange /\ InitStatements /\ NewLexer({"HTML"})
    /\ ppath = <<>> /\ pvalid = <<>>
    /\ adir \in Dirs
    /\ arel \in RelPaths
    /\ aresult = <<>>

SpecAbsolutePath == InitAbsolutePath /\ [][ToAbsolutePathCall]_vars

\* C19: for a valid relative path, toAbsolutePath returns an error or a path
\* in the root "/" that has no ".." name.
C19_AbsolutePathStaysInRoot ==
    (aresult # <<>> /\ ValidPath(arel)) =>
        \/ aresult[1].kind = "error"
        \/ /\ aresult[1].kind = "path"
           /\ aresult[1].path[1] = "/"
           /\ \A i \in 1..Len(Split(aresult[1].path)) :
                    Split(aresult[1].path)[i] # <<".", ".">>

\* binaryOp is called with two string constants or two boolean constants
InitBinaryOp ==
    /\ InitVM /\ InitRegs /\ InitRuns /\ InitRender /\ InitChecker /\ InitExtends
    /\ InitPaths /\ InitRange /\ InitStatements /\ NewLexer({"HTML"})
    /\ cop \in Operators
    /\ \/ \E s1 \in Strings, s2 \in Strings :
            c1 = StringConstant(s1) /\ c2 = StringConstant(s2)
       \/ \E b1 \in BOOLEAN, b2 \in BOOLEAN :
            c1 = BoolConstant(b1) /\ c2 = BoolConstant(b2)
    /\ cfold = <<>>

SpecBinaryOp == InitBinaryOp /\ [][BinaryOpCall]_vars

\* C20: the comparison of two constant strings folds to the value the
\* comparison has at run time: == to true exactly when the strings are
\* equal, != to the negation.
C20_StringComparisonFoldsAsAtRunTime ==
    (cfold # <<>> /\ c1.DefaultType = "string" /\ cop \in {"==", "!="}) =>
        /\ cfold[1].DefaultType = "bool"
        /\ cfold[1].Bool = IfString(cop, c1.String, c2.String)

====
